---- MODULE Spec2Model ----
(***************************************************************************)
(* A model of the task-collection engine of dionysius (src/task.rs) and of *)
(* the configuration inheritance it relies on (src/handlers/*.rs).         *)
(*                                                                         *)
(* Paths are sequences of naturals (the root directory of the run is       *)
(* <<>>); Option<T> is a sequence of length at most one.                   *)
(***************************************************************************)
EXTENDS Naturals, Sequences, FiniteSets, TLC

\* ------------------------------------------------------------------------
\* Option<T>
\* ------------------------------------------------------------------------
None == <<>>
Some(x) == <<x>>
IsSome(o) == o # <<>>
Unwrap(o) == o[1]

\* Vec::contains
Contains(vec, x) == \E i \in 1..Len(vec) : vec[i] = x

\* ------------------------------------------------------------------------
\* Configuration values (handlers/toml_config.rs, handlers/git.rs,
\* handlers/borg.rs, handlers/trigger.rs)
\* ------------------------------------------------------------------------

\* enum OnRecursion
OnRecursion == {"skip", "include", "standalone", "double", "inherit"}

\* impl Default for OnRecursion
OnRecursionDefault == "standalone"

\* impl Default for GitConfig
GitConfigDefault ==
    [ target   |-> Some([mode |-> Some("gitconfig"), target |-> Some("")]),
      assets   |-> Some([ ignore_child |-> None,
                          trigger_by   |-> Some(<<"git", "borg">>),
                          on_unsave    |-> Some("save"),
                          on_recursion |-> Some("inherit") ]),
      heritage |-> Some([ ignore_child |-> Some(FALSE),
                          trigger_by   |-> None,
                          on_unsave    |-> Some("save"),
                          on_recursion |-> Some("inherit") ]) ]

\* impl Default for BorgConfig
BorgConfigDefault ==
    [ target   |-> None,
      assets   |-> Some([ trigger_by         |-> Some(<<"borg">>),
                          exclude_list       |-> None,
                          extra_exclude_mode |-> Some(<<"git">>),
                          on_recursion       |-> Some("inherit"),
                          ignore_child       |-> None ]),
      heritage |-> Some([ trigger_by         |-> None,
                          exclude_list       |-> None,
                          extra_exclude_mode |-> None,
                          on_recursion       |-> Some("inherit"),
                          ignore_child       |-> Some(FALSE) ]) ]

\* enum PushTaskConfig { Trigger(TriggerConfig), Git(GitConfig), Borg(BorgConfig) }
PushTaskConfig(variant, conf) == [variant |-> variant, conf |-> conf]

\* DionysiusConfig::git_default_config
git_default_config ==
    [ trigger |-> None,
      git     |-> Some(PushTaskConfig("Git", GitConfigDefault)),
      borg    |-> None ]

\* DionysiusConfig::push_task_configs: the present sections, in the order of
\* the struct's fields (trigger, git, borg), each with its field name.
push_task_configs(config) ==
    (IF IsSome(config.trigger) THEN <<[name |-> "trigger", push_config |-> Unwrap(config.trigger)]>> ELSE <<>>)
    \o (IF IsSome(config.git) THEN <<[name |-> "git", push_config |-> Unwrap(config.git)]>> ELSE <<>>)
    \o (IF IsSome(config.borg) THEN <<[name |-> "borg", push_config |-> Unwrap(config.borg)]>> ELSE <<>>)

\* PushTaskConfig::accepted_trigger
accepted_trigger(push_config) ==
    IF push_config.variant = "Trigger"
    THEN <<"git", "borg">>
    ELSE Unwrap(Unwrap(push_config.conf.assets).trigger_by)

\* ------------------------------------------------------------------------
\* Inheritance (handlers/git.rs, handlers/borg.rs, handlers/toml_config.rs,
\* task.rs: inherit_config)
\* ------------------------------------------------------------------------

\* GitInheritableConfig::inherit_from that also takes ignore_child from the
\* super's heritage.
GitInheritableConfig_inherit_from_all(self, super_config) ==
    IF self.on_recursion = Some("inherit")
    THEN IF IsSome(super_config)
         THEN [self EXCEPT !.on_recursion = Unwrap(super_config).on_recursion,
                           !.ignore_child = Unwrap(super_config).ignore_child]
         ELSE [self EXCEPT !.on_recursion = Some(OnRecursionDefault)]
    ELSE self

\* impl InheritableConfig for GitInheritableConfig: inherit_from(&self, Option<&Self>)
GitInheritableConfig_inherit_from(self, super_config) ==
    IF self.on_recursion = Some("inherit")
    THEN IF IsSome(super_config)
         THEN [self EXCEPT !.on_recursion = Unwrap(super_config).on_recursion]
         ELSE [self EXCEPT !.on_recursion = Some(OnRecursionDefault)]
    ELSE self

\* impl InheritableConfig for BorgInheritableConfig: inherit_from(&self, &Self)
BorgInheritableConfig_inherit_from(self, super_config) ==
    IF self.on_recursion = Some("inherit")
    THEN [self EXCEPT !.on_recursion = super_config.on_recursion]
    ELSE self

\* HasInheritableConfig::inherit_from, the provided method, as GitConfig uses
\* it: with a super config the assets and then the heritage are merged with
\* the super's heritage; without one the config is returned as it is.
GitConfig_inherit_from(this, super_config) ==
    IF IsSome(super_config)
    THEN LET super_heritage == Unwrap(Unwrap(super_config).heritage)
             with_assets == [this EXCEPT !.assets =
                 Some(GitInheritableConfig_inherit_from(Unwrap(this.assets), Some(super_heritage)))]
         IN  [with_assets EXCEPT !.heritage =
                 Some(GitInheritableConfig_inherit_from(Unwrap(with_assets.heritage), Some(super_heritage)))]
    ELSE this

\* impl HasInheritableConfig for BorgConfig overrides inherit_from: only the
\* assets are merged with the super's heritage. inherit_config hands it an
\* Option; there is nothing to merge with when it is None.
BorgConfig_inherit_from(this, super_config) ==
    IF IsSome(super_config)
    THEN [this EXCEPT !.assets =
             Some(BorgInheritableConfig_inherit_from(
                      Unwrap(this.assets), Unwrap(Unwrap(super_config).heritage)))]
    ELSE this

\* The super config's section of one handler, unwrapped from its enum variant
\* (super_config.git.as_ref().map(|c| c.get_git().unwrap())).
SuperSection(super_config, name) ==
    IF IsSome(super_config) /\ IsSome(Unwrap(super_config)[name])
    THEN Some(Unwrap(Unwrap(super_config)[name]).conf)
    ELSE None

\* inherit_config panics (unreachable!) on a section that is neither Git nor
\* Borg when there is a super config.
inherit_config_panics(this_config, super_config) ==
    IsSome(super_config) /\ IsSome(this_config.trigger)

\* One section of the result of inherit_config.
InheritSection(this_config, super_config, name) ==
    IF ~IsSome(this_config[name])
    THEN None
    ELSE LET push_config == Unwrap(this_config[name])
         IN  CASE push_config.variant = "Git" ->
                    Some(PushTaskConfig("Git",
                        GitConfig_inherit_from(push_config.conf, SuperSection(super_config, "git"))))
               [] push_config.variant = "Borg" ->
                    Some(PushTaskConfig("Borg",
                        BorgConfig_inherit_from(push_config.conf, SuperSection(super_config, "borg"))))
               [] OTHER -> Some(push_config)

\* inherit_config
inherit_config(this_config, super_config) ==
    [ trigger |-> InheritSection(this_config, super_config, "trigger"),
      git     |-> InheritSection(this_config, super_config, "git"),
      borg    |-> InheritSection(this_config, super_config, "borg") ]

\* ------------------------------------------------------------------------
\* The recursion policy (task.rs: apply_recursion_strategy)
\* ------------------------------------------------------------------------

\* apply_recursion_strategy in which standalone does not register the
\* directory.
RegistersInSuper_skip_only(on_recursion) == on_recursion = "skip"

\* apply_recursion_strategy pushes current_dir onto the super exclude list
RegistersInSuper(on_recursion) == on_recursion \in {"skip", "standalone"}

\* apply_recursion_strategy in which include returns Ok(true) as well.
ShouldCreateTask_include_too(on_recursion) ==
    on_recursion \in {"standalone", "double", "include"}

\* the value apply_recursion_strategy returns (should_create_task)
ShouldCreateTask(on_recursion) == on_recursion \in {"standalone", "double"}

\* apply_recursion_strategy reaches unreachable!()
StrategyPanics(on_recursion) == on_recursion = "inherit"

\* ------------------------------------------------------------------------
\* The directory tree and the configurations found in it
\* ------------------------------------------------------------------------

\* The directories of the tree: the root, two subdirectories and one
\* directory nested in the first.
Dirs == { <<>>, <<1>>, <<2>>, <<1, 1>> }

Root == <<>>

IsChild(parent, child) ==
    /\ Len(child) = Len(parent) + 1
    /\ SubSeq(child, 1, Len(parent)) = parent

\* parent is a proper ancestor of dir
IsProperAncestor(parent, dir) ==
    /\ Len(parent) < Len(dir)
    /\ SubSeq(dir, 1, Len(parent)) = parent

\* The immediate subdirectories in the order WalkDir yields them.
Subdirs(dir) ==
    LET n == Cardinality({d \in Dirs : IsChild(dir, d)})
    IN  [i \in 1..n |-> dir \o <<i>>]

\* A completed [git] section of a dionysius.toml.
GitSection(assets_rec, heritage_rec, trigger_by, on_unsave) ==
    PushTaskConfig("Git",
        [ target   |-> Some([mode |-> Some("gitconfig"), target |-> Some("")]),
          assets   |-> Some([ ignore_child |-> None,
                              trigger_by   |-> Some(trigger_by),
                              on_unsave    |-> Some(on_unsave),
                              on_recursion |-> Some(assets_rec) ]),
          heritage |-> Some([ ignore_child |-> Some(FALSE),
                              trigger_by   |-> None,
                              on_unsave    |-> Some("save"),
                              on_recursion |-> Some(heritage_rec) ]) ])

\* A completed [borg] section of a dionysius.toml.
BorgSection(assets_rec, heritage_rec, trigger_by) ==
    PushTaskConfig("Borg",
        [ target   |-> Some([mode |-> Some("path"), target |-> Some("/backup")]),
          assets   |-> Some([ trigger_by         |-> Some(trigger_by),
                              exclude_list       |-> Some(<<"sh:cache">>),
                              extra_exclude_mode |-> Some(<<"git">>),
                              on_recursion       |-> Some(assets_rec),
                              ignore_child       |-> None ]),
          heritage |-> Some([ trigger_by         |-> None,
                              exclude_list       |-> None,
                              extra_exclude_mode |-> None,
                              on_recursion       |-> Some(heritage_rec),
                              ignore_child       |-> Some(FALSE) ]) ])

\* A [trigger] section of a dionysius.toml.
TriggerSection(assets_rec) ==
    PushTaskConfig("Trigger",
        [ assets   |-> Some([on_recursion |-> Some(assets_rec)]),
          heritage |-> Some([on_recursion |-> Some("inherit")]) ])

\* The [git] sections the tree may hold.
GitSections ==
    { GitSection(a, "standalone", <<"git", "borg">>, "save") : a \in OnRecursion \ {"double"} }
    \cup { GitSection("standalone", "inherit", <<"git", "borg">>, "save") }

\* The [borg] sections the tree may hold.
BorgSections ==
    { BorgSection(a, "standalone", <<"borg">>) : a \in {"standalone", "inherit"} }

\* The [trigger] sections the tree may hold.
TriggerSections == { TriggerSection("standalone") }

\* What load_config may return for the dionysius.toml files of the tree.
TomlConfigs ==
    { [trigger |-> None, git |-> Some(g), borg |-> None] : g \in GitSections }
    \cup { [trigger |-> None, git |-> None, borg |-> Some(b)] : b \in BorgSections }
    \cup { [trigger |-> None, git |-> Some(g), borg |-> Some(BorgSection("standalone", "standalone", <<"borg">>))] :
             g \in { GitSection(a, "standalone", <<"git", "borg">>, "save") : a \in {"skip", "standalone"} }
                   \cup { GitSection("standalone", "standalone", <<"git">>, "ignore") } }
    \cup { [trigger |-> None,
            git |-> Some(GitSection("double", "double", <<"git", "borg">>, "save")),
            borg |-> Some(BorgSection("double", "standalone", <<"borg">>))] }
    \cup { [trigger |-> Some(t), git |-> Some(GitSection("standalone", "standalone", <<"git", "borg">>, "save")), borg |-> None] :
             t \in TriggerSections }

\* What a directory of the tree may be: its basename hidden or not, with or
\* without a .git directory, with or without a dionysius.toml (and what
\* load_config returns for it).
DirEntries ==
    { [hidden |-> FALSE, is_git_repo |-> g, config |-> None] : g \in BOOLEAN }
    \cup { [hidden |-> FALSE, is_git_repo |-> TRUE, config |-> Some(c)] : c \in TomlConfigs }

\* At most this many directories of the tree hold a dionysius.toml.
MaxToml == 2

\* The task types of the command line (main.rs).
TaskTypes == {"git", "borg", "trigger"}

\* ------------------------------------------------------------------------
\* State
\* ------------------------------------------------------------------------
VARIABLES
    task_type_id,    \* the task type of the run
    cli_config,      \* CliTaskConfig
    fs,              \* the directory tree: what each directory holds
    calls,           \* the invocations of collect_tasks, in spawn order
    exclude_lists,   \* the exclude list each invocation created (Arc<Mutex<Vec<PathBuf>>>)
    task_list,       \* the shared task list (Arc<Mutex<TaskList>>)
    main,            \* push_main: where it is and the tasks it has run
    git,             \* the executions of a GitSaveTask on a repository
    exec,            \* push_main's loop over the collected tasks
    sect,            \* a handler section as deserialized, and what completion makes of it
    pats             \* the exclude patterns given to a task that is being created

vars == <<task_type_id, cli_config, fs, calls, exclude_lists, task_list, main, git,
          exec, sect, pats>>

\* super_exclude_list = None
NoList == 0

Finished == {"ok", "err", "panic"}

\* A fresh invocation of collect_tasks.
NewCall(dir, super_config, super_exclude_list, parent) ==
    [ dir                |-> dir,
      super_config       |-> super_config,
      super_exclude_list |-> super_exclude_list,
      parent             |-> parent,
      pc                 |-> "start",
      config             |-> None,
      idx                |-> 0,
      children           |-> {},
      exclude_list       |-> <<>> ]

\* tokio::spawn(collect_tasks(...)) for every immediate subdirectory.
SpawnSubdirs(cs, dir, super_config, super_exclude_list, parent) ==
    cs \o [i \in 1..Len(Subdirs(dir)) |->
              NewCall(Subdirs(dir)[i], super_config, super_exclude_list, parent)]

SpawnedIds(cs, dir) == (Len(cs) + 1)..(Len(cs) + Len(Subdirs(dir)))

\* push_main awaiting collect_tasks
MainCollecting == [pc |-> "collect", mode |-> "", ran |-> <<>>]

\* No GitSaveTask is being executed.
GitIdle == <<>>

\* The loop of push_main has not started.
ExecIdle == <<>>

\* No section is being completed.
SectIdle == <<>>

\* No exclude patterns are being converted.
PatsIdle == <<>>

Init ==
    /\ main = MainCollecting
    /\ git = GitIdle
    /\ exec = ExecIdle
    /\ sect = SectIdle
    /\ pats = PatsIdle
    /\ task_type_id \in TaskTypes
    /\ cli_config \in [search_hidden : {FALSE}]
    /\ fs \in [Dirs -> DirEntries]
    /\ Cardinality({d \in Dirs : IsSome(fs[d].config)}) <= MaxToml
    /\ calls = <<NewCall(Root, None, NoList, 0)>>
    /\ exclude_lists = <<>>
    /\ task_list = <<>>

\* ------------------------------------------------------------------------
\* collect_tasks
\* ------------------------------------------------------------------------

\* GitConfig::is_complete
GitConfig_is_complete(conf) ==
    /\ IsSome(conf.assets)
    /\ IsSome(Unwrap(conf.assets).trigger_by)
    /\ IsSome(Unwrap(conf.assets).on_unsave)
    /\ IsSome(Unwrap(conf.assets).on_recursion)
    /\ IsSome(conf.heritage)
    /\ IsSome(Unwrap(conf.heritage).ignore_child)
    /\ IsSome(Unwrap(conf.heritage).on_recursion)

\* BorgConfig::is_complete
BorgConfig_is_complete(conf) ==
    /\ IsSome(conf.assets)
    /\ IsSome(Unwrap(conf.assets).trigger_by)
    /\ IsSome(Unwrap(conf.assets).on_recursion)
    /\ IsSome(conf.heritage)
    /\ IsSome(Unwrap(conf.heritage).ignore_child)
    /\ IsSome(Unwrap(conf.heritage).on_recursion)

\* GitConfig::completion returns Err: a target table without the target
\* string, or with a mode that is neither gitconfig nor path.
GitConfig_completion_fails(conf) ==
    /\ IsSome(conf.target)
    /\ \/ Unwrap(conf.target).target = None
       \/ /\ IsSome(Unwrap(conf.target).mode)
          /\ Unwrap(Unwrap(conf.target).mode) \notin {"gitconfig", "path"}

\* GitConfig::completion panics: target.mode.as_ref().unwrap() on a target
\* table that has the target string and no mode.
GitConfig_completion_panics(conf) ==
    /\ IsSome(conf.target)
    /\ IsSome(Unwrap(conf.target).target)
    /\ Unwrap(conf.target).mode = None

\* BorgConfig::completion returns Err: no target table, a target table
\* without the target string, or with a mode that is not path.
BorgConfig_completion_fails(conf) ==
    \/ conf.target = None
    \/ /\ IsSome(conf.target)
       /\ \/ Unwrap(conf.target).target = None
          \/ /\ IsSome(Unwrap(conf.target).mode)
             /\ Unwrap(Unwrap(conf.target).mode) # "path"

\* BorgConfig::completion panics: target.mode.as_ref().unwrap()
BorgConfig_completion_panics(conf) ==
    /\ IsSome(conf.target)
    /\ IsSome(Unwrap(conf.target).target)
    /\ Unwrap(conf.target).mode = None

\* if field.is_none() { field = default }
OrDefault(field, default) == IF field = None THEN default ELSE field

\* GitConfig::completion, "complete as_child"
GitAssetsCompleted_kept(assets) == assets

GitAssetsCompleted(assets) ==
    IF IsSome(assets)
    THEN Some([Unwrap(assets) EXCEPT
             !.trigger_by   = OrDefault(@, Unwrap(GitConfigDefault.assets).trigger_by),
             !.on_recursion = OrDefault(@, Unwrap(GitConfigDefault.assets).on_recursion),
             !.on_unsave    = OrDefault(@, Unwrap(GitConfigDefault.assets).on_unsave)])
    ELSE GitConfigDefault.assets

\* GitConfig::completion, "complete as_super"
GitHeritageCompleted(heritage) ==
    IF IsSome(heritage)
    THEN Some([Unwrap(heritage) EXCEPT
             !.ignore_child = OrDefault(@, Unwrap(GitConfigDefault.heritage).ignore_child),
             !.on_recursion = OrDefault(@, Unwrap(GitConfigDefault.heritage).on_recursion)])
    ELSE GitConfigDefault.heritage

\* BorgConfig::completion, "complete as_child"
BorgAssetsCompleted(assets) ==
    IF IsSome(assets)
    THEN Some([Unwrap(assets) EXCEPT
             !.trigger_by   = OrDefault(@, Unwrap(BorgConfigDefault.assets).trigger_by),
             !.on_recursion = OrDefault(@, Unwrap(BorgConfigDefault.assets).on_recursion)])
    ELSE BorgConfigDefault.assets

\* BorgConfig::completion, "complete as_super"
BorgHeritageCompleted(heritage) ==
    IF IsSome(heritage)
    THEN Some([Unwrap(heritage) EXCEPT
             !.ignore_child = OrDefault(@, Unwrap(BorgConfigDefault.heritage).ignore_child),
             !.on_recursion = OrDefault(@, Unwrap(BorgConfigDefault.heritage).on_recursion)])
    ELSE BorgConfigDefault.heritage

\* What a completion() or load_raw_config() call comes to: Ok(config),
\* Err(message) or a panic.
Ok(config) == [result |-> "Ok", config |-> Some(config)]

Err == [result |-> "Err", config |-> None]

Panic == [result |-> "panic", config |-> None]

\* GitConfig::completion
GitConfig_completion(conf) ==
    IF GitConfig_completion_fails(conf) THEN Err
    ELSE IF GitConfig_completion_panics(conf) THEN Panic
    ELSE Ok([conf EXCEPT !.assets = GitAssetsCompleted(@),
                         !.heritage = GitHeritageCompleted(@)])

\* BorgConfig::completion
BorgConfig_completion(conf) ==
    IF BorgConfig_completion_fails(conf) THEN Err
    ELSE IF BorgConfig_completion_panics(conf) THEN Panic
    ELSE Ok([conf EXCEPT !.assets = BorgAssetsCompleted(@),
                         !.heritage = BorgHeritageCompleted(@)])

\* PushTaskConfig::is_complete
PushTaskConfig_is_complete(push_config) ==
    CASE push_config.variant = "Git" -> GitConfig_is_complete(push_config.conf)
      [] push_config.variant = "Borg" -> BorgConfig_is_complete(push_config.conf)
      [] OTHER -> TRUE

\* PushTaskConfig::completion
PushTaskConfig_completion(push_config) ==
    LET inner == CASE push_config.variant = "Git" -> GitConfig_completion(push_config.conf)
                   [] push_config.variant = "Borg" -> BorgConfig_completion(push_config.conf)
                   [] OTHER -> Ok(push_config.conf)
    IN  IF inner.result = "Ok"
        THEN Ok(PushTaskConfig(push_config.variant, Unwrap(inner.config)))
        ELSE inner

\* The Option<PushTaskConfig> fields of DionysiusConfig, in their order.
SectionNames == <<"trigger", "git", "borg">>

Field(config, name) ==
    CASE name = "trigger" -> config.trigger
      [] name = "git" -> config.git
      [] OTHER -> config.borg

\* DionysiusConfig::is_complete
DionysiusConfig_is_complete(config) ==
    \A k \in 1..Len(SectionNames) :
        IsSome(Field(config, SectionNames[k])) =>
            PushTaskConfig_is_complete(Unwrap(Field(config, SectionNames[k])))

\* DionysiusConfig::completion: the sections are completed in field order
\* and the first Err (or panic) ends it.
DionysiusConfig_completion(config) ==
    LET done(name) == IF IsSome(Field(config, name))
                      THEN PushTaskConfig_completion(Unwrap(Field(config, name)))
                      ELSE Ok(<<>>)
        bad == { k \in 1..Len(SectionNames) : done(SectionNames[k]).result # "Ok" }
        first == CHOOSE k \in bad : \A m \in bad : k <= m
        section(name) == IF IsSome(Field(config, name)) THEN done(name).config ELSE None
    IN  IF bad # {}
        THEN done(SectionNames[first])
        ELSE Ok([ trigger |-> section("trigger"),
                  git     |-> section("git"),
                  borg    |-> section("borg") ])

\* load_raw_config, from the deserialized file on.
load_raw_config(config) ==
    IF DionysiusConfig_is_complete(config)
    THEN Ok(config)
    ELSE DionysiusConfig_completion(config)

\* load_config returns Err for the dionysius.toml of the directory: a
\* section is not complete and cannot be completed.
load_config_fails(dir) ==
    /\ IsSome(fs[dir].config)
    /\ load_raw_config(Unwrap(fs[dir].config)).result = "Err"

\* The config of a directory that is not trivial: the loaded dionysius.toml,
\* else the built-in git default.
LocalConfig(dir) ==
    IF IsSome(fs[dir].config) THEN Unwrap(fs[dir].config) ELSE git_default_config

\* Arc::new(Mutex::new(Vec::new())): the exclude list of invocation c. The
\* lists are kept by the number of the invocation that created them.
WithNewList(lists, c) ==
    [i \in 1..(IF c > Len(lists) THEN c ELSE Len(lists)) |->
        IF i \in DOMAIN lists /\ i # c THEN lists[i] ELSE <<>>]

\* collect_tasks that does not look its directory up in the handed list.
Excluded_never(c) == FALSE

\* The check at the entry of collect_tasks: the handed exclude list holds
\* current_dir.
Excluded(c) ==
    /\ calls[c].super_exclude_list # NoList
    /\ Contains(exclude_lists[calls[c].super_exclude_list], calls[c].dir)

\* collect_tasks that skips no directory for its name.
Hidden_never(c) == FALSE

\* The check of the basename: search_hidden is off and the name of
\* current_dir starts with ".".
Hidden(c) == ~cli_config.search_hidden /\ fs[calls[c].dir].hidden

\* A directory without config and .git that hands no exclude list down.
TrivialExcludeList_none(c) == NoList

\* The exclude list a directory without config and .git hands to its
\* subdirectories: the one it received (super_exclude_list.clone()).
TrivialExcludeList(c) == calls[c].super_exclude_list

\* From the entry of collect_tasks to the first await or to the loop over
\* the handler sections.
Enter(c) ==
    LET call == calls[c]
        dir == call.dir
        excluded == Excluded(c)
        hidden == Hidden(c)
        trivial == ~IsSome(fs[dir].config) /\ ~fs[dir].is_git_repo
    IN
    /\ call.pc = "start"
    /\ UNCHANGED <<task_type_id, cli_config, fs, exec, sect, pats, main, git, task_list>>
    /\ IF excluded \/ hidden
       THEN /\ calls' = [calls EXCEPT ![c].pc = "ok"]
            /\ UNCHANGED exclude_lists
       ELSE IF trivial
       THEN /\ calls' = SpawnSubdirs(
                            [calls EXCEPT ![c].pc = "join_trivial",
                                          ![c].children = SpawnedIds(calls, dir)],
                            dir, call.super_config, TrivialExcludeList(c), c)
            /\ UNCHANGED exclude_lists
       ELSE IF load_config_fails(dir)
       THEN \* load_config(&config_path).unwrap()
            /\ calls' = [calls EXCEPT ![c].pc = "panic"]
            /\ UNCHANGED exclude_lists
       ELSE IF inherit_config_panics(LocalConfig(dir), call.super_config)
       THEN /\ calls' = [calls EXCEPT ![c].pc = "panic"]
            /\ UNCHANGED exclude_lists
       ELSE /\ calls' = [calls EXCEPT
                            ![c].pc = "loop",
                            ![c].idx = 1,
                            ![c].config = Some(inherit_config(LocalConfig(dir), call.super_config))]
            /\ exclude_lists' = WithNewList(exclude_lists, c)

\* join_all returning as soon as the spawned traversals have started.
Joined_started(c) == \A k \in calls[c].children : calls[k].pc # "start"

\* join_all(subfolder_futures).await returns: every spawned traversal of
\* invocation c has finished.
Joined(c) == \A k \in calls[c].children : calls[k].pc \in Finished

\* A loop over the results that drops the errors.
SubdirsOk_ignored(c) == TRUE

\* `res??` over the results of join_all: no spawned traversal panicked or
\* returned an error.
SubdirsOk(c) == \A k \in calls[c].children : calls[k].pc = "ok"

\* join_all of the subdirectory traversals of a directory without config
\* and without .git, and the return.
JoinTrivial(c) ==
    LET call == calls[c] IN
    /\ call.pc = "join_trivial"
    /\ Joined(c)
    /\ calls' = [calls EXCEPT ![c].pc = IF SubdirsOk(c) THEN "ok" ELSE "err"]
    /\ UNCHANGED <<task_type_id, cli_config, fs, exec, sect, pats, main, git, exclude_lists, task_list>>

\* The section the loop of collect_tasks is at.
CurrentSection(call) == push_task_configs(Unwrap(call.config))[call.idx].push_config

\* the trigger_by filter at the head of the loop body
Accepted(push_config) ==
    Contains(accepted_trigger(push_config), task_type_id) \/ task_type_id = "trigger"

\* on_recursion of a section of the effective config
SectionOnRecursion(push_config) == Unwrap(Unwrap(push_config.conf.assets).on_recursion)

\* The exclude list process_subdirs hands to the subdirectories.
ChildExcludeList(c, push_config) ==
    IF push_config.variant = "Trigger" THEN calls[c].super_exclude_list ELSE c

\* collect_tasks handing its own exclude list to apply_recursion_strategy.
StrategyList_own(c) == c

\* The exclude list collect_tasks hands to apply_recursion_strategy
\* (super_exclude_list.clone()).
StrategyList(c) == calls[c].super_exclude_list

\* One iteration of the loop over the handler sections, up to the await in
\* process_subdirs: the trigger_by filter, apply_recursion_strategy and the
\* spawn of the subdirectory traversals.
Dispatch(c) ==
    LET call == calls[c]
        dir == call.dir
    IN
    /\ call.pc = "loop"
    /\ UNCHANGED <<task_type_id, cli_config, fs, exec, sect, pats, main, git, task_list>>
    /\ IF call.idx > Len(push_task_configs(Unwrap(call.config)))
       THEN /\ calls' = [calls EXCEPT ![c].pc = "ok"]
            /\ UNCHANGED exclude_lists
       ELSE LET push_config == CurrentSection(call)
                on_recursion == SectionOnRecursion(push_config)
            IN
            IF ~Accepted(push_config)
            THEN \* break
                 /\ calls' = [calls EXCEPT ![c].pc = "ok"]
                 /\ UNCHANGED exclude_lists
            ELSE IF StrategyPanics(on_recursion)
            THEN /\ calls' = [calls EXCEPT ![c].pc = "panic"]
                 /\ UNCHANGED exclude_lists
            ELSE
                 /\ exclude_lists' =
                        IF RegistersInSuper(on_recursion) /\ StrategyList(c) # NoList
                        THEN [exclude_lists EXCEPT ![StrategyList(c)] = Append(@, dir)]
                        ELSE exclude_lists
                 /\ IF ~ShouldCreateTask(on_recursion)
                    THEN \* return Ok(())
                         calls' = [calls EXCEPT ![c].pc = "ok"]
                    ELSE IF push_config.variant = "Trigger" /\ call.super_exclude_list = NoList
                    THEN \* super_exclude_list.clone().unwrap()
                         calls' = [calls EXCEPT ![c].pc = "panic"]
                    ELSE calls' = SpawnSubdirs(
                                      [calls EXCEPT ![c].pc = "join",
                                                    ![c].children = SpawnedIds(calls, dir)],
                                      dir, call.config, ChildExcludeList(c, push_config), c)

\* A task constructed with an empty exclude_list.
Reap_empty(c) == <<>>

\* "reap the exclude_list": the clone of the list of the directory the task
\* is constructed with.
Reap(c) == exclude_lists[c]

\* process_subdirs returns: every spawned traversal has finished. On an
\* error of one of them collect_tasks returns it; else it reaps the exclude
\* list of the directory.
Join(c) ==
    LET call == calls[c] IN
    /\ call.pc = "join"
    /\ Joined(c)
    /\ calls' = IF SubdirsOk(c)
                THEN [calls EXCEPT ![c].pc = "push",
                                   ![c].exclude_list =
                                       IF CurrentSection(call).variant = "Trigger"
                                       THEN <<>> ELSE Reap(c)]
                ELSE [calls EXCEPT ![c].pc = "err"]
    /\ UNCHANGED <<task_type_id, cli_config, fs, exec, sect, pats, main, git, exclude_lists, task_list>>

\* The task a section creates.
NewTask(call, push_config) ==
    CASE push_config.variant = "Git" ->
            [ kind             |-> "GitSaveTask",
              dir              |-> call.dir,
              exclude_list     |-> call.exclude_list,
              unsaved_behavior |-> Unwrap(Unwrap(push_config.conf.assets).on_unsave),
              target           |-> "" ]
      [] push_config.variant = "Borg" ->
            [ kind             |-> "BorgCreateTask",
              dir              |-> call.dir,
              exclude_list     |-> call.exclude_list,
              unsaved_behavior |-> "",
              target           |-> Unwrap(Unwrap(push_config.conf.target).target) ]
      [] OTHER ->
            [ kind             |-> "TriggerTask",
              dir              |-> call.dir,
              exclude_list     |-> <<>>,
              unsaved_behavior |-> "",
              target           |-> "" ]

\* borg_conf.target.as_ref().unwrap().target.clone().unwrap() panics: the
\* [borg] section has no target table, or the table has no target string.
TargetMissing(push_config) ==
    /\ push_config.variant = "Borg"
    /\ \/ push_config.conf.target = None
       \/ Unwrap(push_config.conf.target).target = None

\* The task is created and appended to the task list; the loop goes on with
\* the next section. Building a BorgCreateTask unwraps the target.
Push(c) ==
    LET call == calls[c] IN
    /\ call.pc = "push"
    /\ IF TargetMissing(CurrentSection(call))
       THEN /\ calls' = [calls EXCEPT ![c].pc = "panic"]
            /\ UNCHANGED task_list
       ELSE /\ task_list' = Append(task_list, NewTask(call, CurrentSection(call)))
            /\ calls' = [calls EXCEPT ![c].pc = "loop", ![c].idx = @ + 1]
    /\ UNCHANGED <<task_type_id, cli_config, fs, exec, sect, pats, main, git, exclude_lists>>

\* The ways push_main runs the collected tasks: --preview, the printed
\* command list, --execute.
Modes == {"preview", "print", "execute"}

\* push_main after collect_tasks has returned: unwrap() of its result, then
\* the loop that previews or executes every task of the list.
PushMain ==
    /\ main.pc = "collect"
    /\ calls[1].pc \in Finished
    /\ IF calls[1].pc = "ok"
       THEN \E mode \in Modes :
                main' = [pc |-> "done", mode |-> mode, ran |-> task_list]
       ELSE main' = [main EXCEPT !.pc = "panic"]
    /\ UNCHANGED <<task_type_id, cli_config, fs, exec, sect, pats, calls, exclude_lists, task_list, git>>

Next ==
    \/ \E c \in 1..Len(calls) : Enter(c)
    \/ \E c \in 1..Len(calls) : JoinTrivial(c)
    \/ \E c \in 1..Len(calls) : Dispatch(c)
    \/ \E c \in 1..Len(calls) : Join(c)
    \/ \E c \in 1..Len(calls) : Push(c)
    \/ PushMain

Spec == Init /\ [][Next]_vars

\* ------------------------------------------------------------------------
\* Trees with hidden directories and with a dionysius.toml that fails to
\* load
\* ------------------------------------------------------------------------

\* A [git] section load_config fails on: no assets and heritage tables, and
\* a target table without the target string.
BadGitSection ==
    PushTaskConfig("Git",
        [ target   |-> Some([mode |-> Some("gitconfig"), target |-> None]),
          assets   |-> None,
          heritage |-> None ])

\* A [borg] section with every assets and heritage field written out and
\* no [borg.target] table.
BorgSectionNoTarget ==
    PushTaskConfig("Borg",
        [BorgSection("standalone", "standalone", <<"borg">>).conf EXCEPT !.target = None])

\* The dionysius.toml files of these trees: a [git] section, a [git] and a
\* [borg] section, a file that fails to load, and a [borg] section without
\* its target.
WalkTomlConfigs ==
    { [trigger |-> None,
       git |-> Some(GitSection("standalone", "standalone", <<"git", "borg">>, "save")),
       borg |-> None],
      [trigger |-> None,
       git |-> Some(GitSection("standalone", "standalone", <<"git", "borg">>, "save")),
       borg |-> Some(BorgSection("standalone", "standalone", <<"borg">>))],
      [trigger |-> None, git |-> Some(BadGitSection), borg |-> None],
      [trigger |-> None, git |-> None, borg |-> Some(BorgSectionNoTarget)] }

\* What a directory of these trees may be.
WalkDirEntries ==
    { [hidden |-> h, is_git_repo |-> FALSE, config |-> None] : h \in BOOLEAN }
    \cup { [hidden |-> h, is_git_repo |-> TRUE, config |-> Some(c)] :
             h \in BOOLEAN, c \in WalkTomlConfigs }

InitWalk ==
    /\ main = MainCollecting
    /\ git = GitIdle
    /\ exec = ExecIdle
    /\ sect = SectIdle
    /\ pats = PatsIdle
    /\ task_type_id \in TaskTypes
    /\ cli_config \in [search_hidden : BOOLEAN]
    /\ fs \in [Dirs -> WalkDirEntries]
    /\ Cardinality({d \in Dirs : IsSome(fs[d].config)}) <= MaxToml
    /\ calls = <<NewCall(Root, None, NoList, 0)>>
    /\ exclude_lists = <<>>
    /\ task_list = <<>>

SpecWalk == InitWalk /\ [][Next]_vars

\* ------------------------------------------------------------------------
\* GitSaveTask::execute (git.rs: autosave_and_push)
\* ------------------------------------------------------------------------

\* on_unsave
OnUnsave == {"save", "ignore", "ask", "interrupt"}

\* command_list of execute: Some(list) captures the command lines (shell),
\* None performs the actions (execute).
CaptureModes == {"shell", "execute"}

\* What autosave_and_push reads of a repository: is_tree_clean,
\* is_index_clean, upstream_status (ahead, behind) and whether the branch
\* has an upstream; remote_new: the upstream has commits the local
\* remote-tracking branch does not have before the fetch.
RepoStates ==
    [ tree_clean : BOOLEAN, index_clean : BOOLEAN,
      ahead : BOOLEAN, behind : BOOLEAN,
      has_upstream : BOOLEAN, remote_new : BOOLEAN ]

\* An execution of the task at the entry of autosave_and_push.
GitRun(repo) ==
    [ pc |-> "tree", repo |-> repo, log |-> <<>>, fetched |-> FALSE,
      seen |-> <<>>, result |-> "" ]

\* The Debug format of the std::process::Command that is captured.
CommandLine(subcommand_args) == <<"git", "-C", "R">> \o subcommand_args

\* The git subcommand of a captured command line.
SubcommandOf(line) == line[4]

\* The actions of a run in their order: the subcommands of the captured
\* lines, or the actions performed.
Actions(run_mode) ==
    IF run_mode = "shell"
    THEN [i \in 1..Len(git.runs[run_mode].log) |-> SubcommandOf(git.runs[run_mode].log[i])]
    ELSE git.runs[run_mode].log

GitInit ==
    /\ task_type_id = "git"
    /\ cli_config = [search_hidden |-> FALSE]
    /\ fs = [d \in Dirs |-> [hidden |-> FALSE, is_git_repo |-> d = Root, config |-> None]]
    /\ calls = <<>>
    /\ exclude_lists = <<>>
    /\ task_list = <<>>
    /\ main = [pc |-> "done", mode |-> "execute", ran |-> <<>>]
    /\ exec = ExecIdle
    /\ sect = SectIdle
    /\ pats = PatsIdle
    /\ \E unsaved_behavior \in OnUnsave, repo \in RepoStates,
          answers \in [add : BOOLEAN, commit : BOOLEAN],
          env \in [fetch_ok : BOOLEAN, push_ok : BOOLEAN] :
           git = [ unsaved_behavior |-> unsaved_behavior,
                   answers |-> answers,
                   env |-> env,
                   runs |-> [run_mode \in CaptureModes |-> GitRun(repo)] ]

\* add_to_index: the captured `git add`, or index.add_all and index.write.
add_to_index(run, run_mode) ==
    IF run_mode = "shell"
    THEN [run EXCEPT !.log = Append(@, CommandLine(<<"add", ".">>))]
    ELSE [run EXCEPT !.log = Append(@, "add"),
                     !.repo.tree_clean = TRUE,
                     !.repo.index_clean = FALSE]

\* commit_to_head: the captured `git commit`, or repo.commit on HEAD.
commit_to_head(run, run_mode) ==
    IF run_mode = "shell"
    THEN [run EXCEPT !.log = Append(@, CommandLine(<<"commit", "-m", "Autosave by dionysius">>))]
    ELSE [run EXCEPT !.log = Append(@, "commit"),
                     !.repo.index_clean = TRUE,
                     !.repo.ahead = TRUE]

\* A policy under which ignore saves like save does.
Saves_unless_interrupt(answer) ==
    \/ git.unsaved_behavior \in {"save", "ignore"}
    \/ git.unsaved_behavior = "ask" /\ answer

\* The policy applied to a dirty working tree or index: whether the change
\* is saved (save, or ask answered with yes).
Saves(answer) ==
    \/ git.unsaved_behavior = "save"
    \/ git.unsaved_behavior = "ask" /\ answer

\* The working tree: is_tree_clean and the on_unsave policy.
GitTree(run_mode) ==
    LET run == git.runs[run_mode] IN
    /\ run.pc = "tree"
    /\ git' = [git EXCEPT !.runs[run_mode] =
                  IF run.repo.tree_clean
                  THEN [run EXCEPT !.pc = "index"]
                  ELSE IF git.unsaved_behavior = "interrupt"
                  THEN [run EXCEPT !.pc = "done", !.result = "Err"]
                  ELSE IF Saves(git.answers.add)
                  THEN [add_to_index(run, run_mode) EXCEPT !.pc = "index"]
                  ELSE [run EXCEPT !.pc = "index"]]
    /\ UNCHANGED <<task_type_id, cli_config, fs, exec, sect, pats, calls, exclude_lists, task_list, main>>

\* The index: is_index_clean and the on_unsave policy.
GitIndex(run_mode) ==
    LET run == git.runs[run_mode] IN
    /\ run.pc = "index"
    /\ git' = [git EXCEPT !.runs[run_mode] =
                  IF run.repo.index_clean
                  THEN [run EXCEPT !.pc = "fetch"]
                  ELSE IF git.unsaved_behavior = "interrupt"
                  THEN [run EXCEPT !.pc = "done", !.result = "Err"]
                  ELSE IF Saves(git.answers.commit)
                  THEN [commit_to_head(run, run_mode) EXCEPT !.pc = "fetch"]
                  ELSE [run EXCEPT !.pc = "fetch"]]
    /\ UNCHANGED <<task_type_id, cli_config, fs, exec, sect, pats, calls, exclude_lists, task_list, main>>

\* fetch_upstream: the captured `git fetch`, or the git process and its
\* exit status.
GitFetch(run_mode) ==
    LET run == git.runs[run_mode] IN
    /\ run.pc = "fetch"
    /\ git' = [git EXCEPT !.runs[run_mode] =
                  IF run_mode = "shell"
                  THEN [run EXCEPT !.pc = "status", !.fetched = TRUE,
                                   !.log = Append(@, CommandLine(<<"fetch">>))]
                  ELSE IF git.env.fetch_ok
                  THEN [run EXCEPT !.pc = "status", !.fetched = TRUE,
                                   !.log = Append(@, "fetch"),
                                   !.repo.behind = @ \/ run.repo.remote_new]
                  ELSE [run EXCEPT !.pc = "done", !.result = "Err",
                                   !.log = Append(@, "fetch")]]
    /\ UNCHANGED <<task_type_id, cli_config, fs, exec, sect, pats, calls, exclude_lists, task_list, main>>

\* A push whenever the branch is ahead, diverged or not.
ShouldPush_ahead(ahead, behind) == ahead

\* The branch of autosave_and_push that calls push_upstream.
ShouldPush(ahead, behind) == ~(ahead /\ behind) /\ ahead

\* push_upstream: the captured `git push`, or the git process and its exit
\* status.
push_upstream(run, run_mode) ==
    IF run_mode = "shell"
    THEN [run EXCEPT !.log = Append(@, CommandLine(<<"push">>)), !.result = "Ok"]
    ELSE IF git.env.push_ok
    THEN [run EXCEPT !.log = Append(@, "push"), !.result = "Ok", !.repo.ahead = FALSE]
    ELSE [run EXCEPT !.log = Append(@, "push"), !.result = "Err"]

\* upstream_status and the push when the branch is ahead and not behind.
GitPush(run_mode) ==
    LET run == git.runs[run_mode] IN
    /\ run.pc = "status"
    /\ git' = [git EXCEPT !.runs[run_mode] =
                  IF ~run.repo.has_upstream
                  THEN [run EXCEPT !.pc = "done", !.result = "Err"]
                  ELSE LET seen == [run EXCEPT !.pc = "done", !.result = "Ok",
                                               !.seen = <<run.repo.ahead, run.repo.behind>>]
                       IN  IF ShouldPush(run.repo.ahead, run.repo.behind)
                           THEN push_upstream(seen, run_mode)
                           ELSE seen]
    /\ UNCHANGED <<task_type_id, cli_config, fs, exec, sect, pats, calls, exclude_lists, task_list, main>>

GitNext ==
    \/ \E run_mode \in CaptureModes : GitTree(run_mode)
    \/ \E run_mode \in CaptureModes : GitIndex(run_mode)
    \/ \E run_mode \in CaptureModes : GitFetch(run_mode)
    \/ \E run_mode \in CaptureModes : GitPush(run_mode)

GitSpec == GitInit /\ [][GitNext]_vars

\* ------------------------------------------------------------------------
\* Vocabulary of the properties
\* ------------------------------------------------------------------------
CallIds == 1..Len(calls)

TaskIds == 1..Len(task_list)

\* The invocations spawned by invocation k and by those, k included.
RECURSIVE DescendantCalls(_)
DescendantCalls(k) ==
    {k} \cup UNION { DescendantCalls(j) : j \in { i \in CallIds : calls[i].parent = k } }

\* collect_tasks of the root directory has returned Ok(())
RunOk == calls[1].pc = "ok"

\* The invocation has an effective config (it is past inherit_config).
HasConfig(c) == IsSome(calls[c].config)

Sections(c) == push_task_configs(Unwrap(calls[c].config))

\* The kind of task a section creates.
TaskKind(push_config) ==
    CASE push_config.variant = "Git" -> "GitSaveTask"
      [] push_config.variant = "Borg" -> "BorgCreateTask"
      [] OTHER -> "TriggerTask"

\* The sections of invocation c whose task has been appended: the loop is
\* past them.
CompletedSections(c) ==
    IF HasConfig(c) THEN 1..(calls[c].idx - 1) ELSE {}

\* Path::strip_prefix(base) succeeds
StripPrefixOk(path, base) ==
    /\ Len(base) <= Len(path)
    /\ SubSeq(path, 1, Len(base)) = base

\* BorgCreateTask::borg_exclude_patterns returns Ok
borg_exclude_patterns_ok(task) ==
    \A i \in 1..Len(task.exclude_list) : StripPrefixOk(task.exclude_list[i], task.dir)

\* ------------------------------------------------------------------------
\* Properties of the collection
\* ------------------------------------------------------------------------

\* Invocation c, of a nested directory, has dispatched section j with
\* on_recursion = standalone and gone on past it.
DispatchedStandalone(c, j) ==
    /\ HasConfig(c)
    /\ calls[c].super_exclude_list # NoList
    /\ j \in CompletedSections(c)
    /\ SectionOnRecursion(Sections(c)[j].push_config) = "standalone"

HasTask(dir) == \E t \in TaskIds : task_list[t].dir = dir

\* a is the nearest proper ancestor of dir for which a task was created
IsNearestTaskAncestor(a, dir) ==
    /\ IsProperAncestor(a, dir)
    /\ HasTask(a)
    /\ \A b \in Dirs : IsProperAncestor(b, dir) /\ HasTask(b) => Len(b) <= Len(a)

\* C1: when the collection has returned Ok, under every interleaving, every
\* nested directory that dispatched a handler section with on_recursion =
\* standalone has a task of that handler, and every task of the nearest
\* ancestor directory that has a task holds the directory in its
\* exclude_list.
C1_StandaloneTaskAndExcluded ==
    RunOk =>
        \A c \in CallIds : \A j \in 1..3 :
            DispatchedStandalone(c, j) =>
                /\ \E t \in TaskIds :
                       /\ task_list[t].dir = calls[c].dir
                       /\ task_list[t].kind = TaskKind(Sections(c)[j].push_config)
                /\ \E a \in Dirs :
                       /\ IsNearestTaskAncestor(a, calls[c].dir)
                       /\ \A t \in TaskIds :
                              task_list[t].dir = a =>
                                  Contains(task_list[t].exclude_list, calls[c].dir)

\* C1 witness: the run is over, <<1>> has neither config nor .git, <<1, 1>>
\* below it dispatched a standalone section and has its task, the task of
\* the root excludes it, and the sibling <<2>> got a task as well.
C1_Witness ==
    /\ RunOk
    /\ ~IsSome(fs[<<1>>].config) /\ ~fs[<<1>>].is_git_repo
    /\ \E c \in CallIds : calls[c].dir = <<1, 1>> /\ DispatchedStandalone(c, 1)
    /\ HasTask(<<1, 1>>)
    /\ HasTask(<<2>>)
    /\ \E t \in TaskIds :
           task_list[t].dir = Root /\ Contains(task_list[t].exclude_list, <<1, 1>>)

\* C2: every path in the exclude_list of every task is a proper descendant
\* of the task's directory, and borg_exclude_patterns finds every path
\* under the source.
C2_ExcludesAreDescendants ==
    \A t \in TaskIds :
        /\ \A i \in 1..Len(task_list[t].exclude_list) :
               IsProperAncestor(task_list[t].dir, task_list[t].exclude_list[i])
        /\ borg_exclude_patterns_ok(task_list[t])

\* C2 witness: a borg task with a non-empty exclude_list, and a task two
\* levels above a path it excludes.
C2_Witness ==
    /\ \E t \in TaskIds :
           task_list[t].kind = "BorgCreateTask" /\ task_list[t].exclude_list # <<>>
    /\ \E t \in TaskIds :
           task_list[t].dir = Root /\ Contains(task_list[t].exclude_list, <<1, 1>>)

\* C3: the task list holds no two tasks of the same kind with the same
\* directory.
C3_NoTwoTasksOfOneRoot ==
    \A t, u \in TaskIds :
        t # u => ~(/\ task_list[t].kind = task_list[u].kind
                   /\ task_list[t].dir = task_list[u].dir)

\* C4: in the task list every task of a descendant directory stands before
\* every task of its ancestor (post-order).
C4_PostOrder ==
    \A t, u \in TaskIds :
        IsProperAncestor(task_list[t].dir, task_list[u].dir) => u < t

\* Invocation c takes the step that applies the recursion policy to a git
\* or borg section of its effective config.
PolicyStep(c) ==
    /\ calls[c].pc = "loop"
    /\ calls'[c].pc # "loop"
    /\ calls[c].idx <= Len(Sections(c))
    /\ Accepted(CurrentSection(calls[c]))
    /\ CurrentSection(calls[c]).variant \in {"Git", "Borg"}
    /\ SectionOnRecursion(CurrentSection(calls[c])) # "inherit"

\* The step of invocation c is the row of the table for on_recursion.
FollowsTable(c) ==
    LET on_recursion == SectionOnRecursion(CurrentSection(calls[c]))
        super == calls[c].super_exclude_list
        dir == calls[c].dir
        spawned == (Len(calls) + 1)..Len(calls')
    IN
    /\ IF on_recursion \in {"skip", "standalone"} /\ super # NoList
       THEN exclude_lists' = [exclude_lists EXCEPT ![super] = Append(@, dir)]
       ELSE exclude_lists' = exclude_lists
    /\ task_list' = task_list
    /\ on_recursion \in {"skip", "include"} =>
           /\ calls'[c].pc = "ok"
           /\ spawned = {}
    /\ on_recursion \in {"standalone", "double"} =>
           /\ calls'[c].pc = "join"
           /\ {calls'[k].dir : k \in spawned} = {d \in Dirs : IsChild(dir, d)}
           /\ \A k \in spawned :
                  /\ calls'[k].super_exclude_list = c
                  /\ calls'[k].super_config = calls[c].config

\* Every git or borg section the loop of c is past had on_recursion
\* standalone or double, and its task is in the task list.
CreatedPerTable(c) ==
    \A j \in CompletedSections(c) :
        Sections(c)[j].push_config.variant \in {"Git", "Borg"} =>
            /\ SectionOnRecursion(Sections(c)[j].push_config) \in {"standalone", "double"}
            /\ \E t \in TaskIds :
                   /\ task_list[t].dir = calls[c].dir
                   /\ task_list[t].kind = TaskKind(Sections(c)[j].push_config)

\* C5: the recursion policy applied to a git or borg section follows the
\* table: skip registers the directory in the parent's exclude list (when
\* there is one), creates no task and does not descend; include registers
\* nothing, creates no task and does not descend; standalone registers the
\* directory and double does not, and both descend with the directory's own
\* exclude list and the effective config and, once the subdirectories are
\* done, have their task in the task list.
C5_PolicyTable ==
    /\ [](\A c \in CallIds : CreatedPerTable(c))
    /\ [][\A c \in CallIds : PolicyStep(c) => FollowsTable(c)]_vars

\* Invocation c, nested below a directory with an exclude list, stopped at a
\* section with this on_recursion (skip or include).
StoppedAt(c, on_recursion) ==
    /\ HasConfig(c)
    /\ calls[c].pc = "ok"
    /\ calls[c].super_exclude_list # NoList
    /\ calls[c].idx <= Len(Sections(c))
    /\ Accepted(CurrentSection(calls[c]))
    /\ SectionOnRecursion(CurrentSection(calls[c])) = on_recursion

\* C5 witness: the run is over and all four rows have been applied to
\* nested directories: one stopped at skip or include, one got its task as
\* standalone or double, and the task of the root excludes a directory.
C5_Witness ==
    /\ RunOk
    /\ \E c \in CallIds : StoppedAt(c, "skip") \/ StoppedAt(c, "include")
    /\ \E c \in CallIds :
           /\ HasConfig(c)
           /\ calls[c].super_exclude_list # NoList
           /\ 1 \in CompletedSections(c)
           /\ SectionOnRecursion(Sections(c)[1].push_config) \in {"standalone", "double"}
    /\ \E t \in TaskIds : task_list[t].dir = Root /\ task_list[t].exclude_list # <<>>

\* C6: no section of an effective config has assets.on_recursion = inherit.
C6_NoInheritAfterResolution ==
    \A c \in CallIds :
        HasConfig(c) =>
            \A j \in 1..Len(Sections(c)) :
                SectionOnRecursion(Sections(c)[j].push_config) # "inherit"

\* The resolution rule of assets.on_recursion for the section `name` of
\* invocation c.
ResolvedPerRule(c, name) ==
    LET local == Unwrap(Unwrap(LocalConfig(calls[c].dir)[name]).conf.assets).on_recursion
        effective == Unwrap(Unwrap(Unwrap(calls[c].config)[name]).conf.assets).on_recursion
        super == SuperSection(calls[c].super_config, name)
    IN  IF local # Some("inherit") THEN effective = local
        ELSE IF IsSome(super) THEN effective = Unwrap(Unwrap(super).heritage).on_recursion
        ELSE effective = Some("standalone")

\* C7: assets.on_recursion of every git and borg section is resolved by the
\* rule (a local value is kept, a local inherit takes the parent's
\* heritage.on_recursion, and without such a parent section it becomes
\* standalone), and a git repository without dionysius.toml and without
\* configured ancestor ends a git run with its GitSaveTask (unsaved_behavior
\* Save) in the task list.
C7_ResolutionRule ==
    \A c \in CallIds :
        HasConfig(c) =>
            /\ \A name \in {"git", "borg"} :
                   IsSome(LocalConfig(calls[c].dir)[name]) => ResolvedPerRule(c, name)
            /\ ( /\ calls[c].super_config = None
                 /\ ~IsSome(fs[calls[c].dir].config)
                 /\ task_type_id = "git"
                 /\ calls[c].pc \in Finished )
               => /\ calls[c].pc = "ok"
                  /\ \E t \in TaskIds :
                         /\ task_list[t].dir = calls[c].dir
                         /\ task_list[t].kind = "GitSaveTask"
                         /\ task_list[t].unsaved_behavior = "save"

\* A section without the two on_recursion values.
WithoutOnRecursion(push_config) ==
    [push_config EXCEPT !.conf.assets[1].on_recursion = None,
                        !.conf.heritage[1].on_recursion = None]

\* C8: every section of an effective config equals the local section in
\* everything but on_recursion (target, trigger_by, on_unsave, exclude_list,
\* extra_exclude_mode, ignore_child), and the effective config has the
\* sections of the local config.
C8_InheritanceChangesOnlyOnRecursion ==
    \A c \in CallIds :
        HasConfig(c) =>
            \A name \in {"trigger", "git", "borg"} :
                LET local == LocalConfig(calls[c].dir)[name]
                    effective == Unwrap(calls[c].config)[name]
                IN  /\ IsSome(effective) <=> IsSome(local)
                    /\ IsSome(local) =>
                           WithoutOnRecursion(Unwrap(effective)) = WithoutOnRecursion(Unwrap(local))

\* C8 witness: inheritance changed on_recursion of a git section and of a
\* borg section.
C8_Witness ==
    /\ \E c \in CallIds :
           /\ HasConfig(c)
           /\ IsSome(Unwrap(calls[c].config).git)
           /\ Unwrap(calls[c].config).git # LocalConfig(calls[c].dir).git
    /\ \E c \in CallIds :
           /\ HasConfig(c)
           /\ IsSome(Unwrap(calls[c].config).borg)
           /\ Unwrap(calls[c].config).borg # LocalConfig(calls[c].dir).borg

\* The config has a git or borg section with heritage.on_recursion = inherit.
HeritageInherit(config) ==
    \E name \in {"git", "borg"} :
        /\ IsSome(config[name])
        /\ Unwrap(Unwrap(config[name]).conf.heritage).on_recursion = Some("inherit")

\* C9: an invocation without super config whose config has
\* heritage.on_recursion = inherit neither descends nor creates a task nor
\* returns Ok, and no invocation receives a super config with
\* heritage.on_recursion = inherit.
C9_RootHeritageInheritIsAnError ==
    \A c \in CallIds :
        /\ ( /\ HasConfig(c)
             /\ calls[c].super_config = None
             /\ HeritageInherit(Unwrap(calls[c].config)) )
           => calls[c].pc \notin {"join", "push", "ok"}
        /\ IsSome(calls[c].super_config) => ~HeritageInherit(Unwrap(calls[c].super_config))

\* C10: the sections the loop went past were accepted by the run, and an
\* invocation that left the loop at a section the run does not accept has no
\* accepted section after it: the filtered section alone is skipped.
C10_FilteredSectionSkippedAlone ==
    \A c \in CallIds :
        HasConfig(c) =>
            /\ \A j \in CompletedSections(c) : Accepted(Sections(c)[j].push_config)
            /\ ( /\ calls[c].pc = "ok"
                 /\ calls[c].idx <= Len(Sections(c))
                 /\ ~Accepted(CurrentSection(calls[c])) )
               => \A j \in (calls[c].idx + 1)..Len(Sections(c)) :
                      ~Accepted(Sections(c)[j].push_config)

\* ------------------------------------------------------------------------
\* Runs with task type trigger
\* ------------------------------------------------------------------------

\* The effective config of invocation c has a [trigger] section.
HasTriggerSection(c) == HasConfig(c) /\ IsSome(Unwrap(calls[c].config).trigger)

\* C11: in a run with task type trigger no invocation ends with an error or
\* a panic, and every invocation that returned Ok at a directory whose
\* dionysius.toml has a [trigger] section left a TriggerTask of the directory
\* and the task of every git and borg section of its config.
C11_TriggerRunProducesTriggerTasks ==
    task_type_id = "trigger" =>
        \A c \in CallIds :
            /\ fs[calls[c].dir].config # None /\ IsSome(Unwrap(fs[calls[c].dir].config).trigger)
                   => calls[c].pc \notin {"err", "panic"}
            /\ (HasTriggerSection(c) /\ calls[c].pc = "ok") =>
                   \A j \in 1..Len(Sections(c)) :
                       \E t \in TaskIds :
                           /\ task_list[t].dir = calls[c].dir
                           /\ task_list[t].kind = TaskKind(Sections(c)[j].push_config)

\* ------------------------------------------------------------------------
\* The order of the tasks of one directory
\* ------------------------------------------------------------------------

\* The sections of a dionysius.toml in every order the file may list them.
FileOrders(config) ==
    LET sections == push_task_configs(config)
        n == Len(sections)
    IN  { [i \in 1..n |-> sections[p[i]]] :
            p \in { q \in [1..n -> 1..n] : \A i, j \in 1..n : i # j => q[i] # q[j] } }

\* The section of the file with this name, if any.
FileSection(file, name) ==
    IF \E i \in 1..Len(file) : file[i].name = name
    THEN Some(file[CHOOSE i \in 1..Len(file) : file[i].name = name].push_config)
    ELSE None

\* toml::Value::try_into::<DionysiusConfig>: the sections of the file,
\* whatever their order, become the fields of the struct.
DionysiusConfig_from_table(file) ==
    [ trigger |-> FileSection(file, "trigger"),
      git     |-> FileSection(file, "git"),
      borg    |-> FileSection(file, "borg") ]

\* The place of a task kind in the order trigger, git, borg.
HandlerRank(kind) ==
    CASE kind = "TriggerTask" -> 1
      [] kind = "GitSaveTask" -> 2
      [] kind = "BorgCreateTask" -> 3

\* C12: of two tasks of one directory the one appended first is of the
\* earlier handler in the order trigger, git, borg (or of the same handler),
\* and the sections a dionysius.toml is loaded into, hence the order the loop
\* goes through them, do not depend on their order in the file.
C12_FixedHandlerOrder ==
    /\ \A d \in Dirs :
           IsSome(fs[d].config) =>
               \A file \in FileOrders(Unwrap(fs[d].config)) :
                   DionysiusConfig_from_table(file) = Unwrap(fs[d].config)
    /\ \A t1, t2 \in TaskIds :
           (t1 < t2 /\ task_list[t1].dir = task_list[t2].dir) =>
               HandlerRank(task_list[t1].kind) <= HandlerRank(task_list[t2].kind)

\* ------------------------------------------------------------------------
\* collect_tasks with the subdirectories traversed one after the other
\* ------------------------------------------------------------------------

\* The exclude lists in the order of their creation, the task list and the
\* result of the invocation that returned last.
SeqStart == [lists |-> <<>>, tasks |-> <<>>, res |-> "ok"]

RECURSIVE collect_tasks_seq(_, _, _, _)
RECURSIVE process_subdirs_seq(_, _, _, _, _)
RECURSIVE loop_seq(_, _, _, _, _, _)

\* The spawned traversals of dirs[i..], joined: Ok when all returned Ok.
process_subdirs_seq(dirs, i, super_config, super_exclude_list, st) ==
    IF i > Len(dirs)
    THEN st
    ELSE LET r == collect_tasks_seq(dirs[i], super_config, super_exclude_list, st)
         IN  process_subdirs_seq(dirs, i + 1, super_config, super_exclude_list,
                 [r EXCEPT !.res = IF st.res = "ok" /\ r.res = "ok" THEN "ok" ELSE "err"])

\* The loop over the handler sections from section idx on.
loop_seq(dir, config, super_exclude_list, own, idx, st) ==
    IF idx > Len(push_task_configs(config))
    THEN [st EXCEPT !.res = "ok"]
    ELSE LET push_config == push_task_configs(config)[idx].push_config
             on_recursion == SectionOnRecursion(push_config)
             registered ==
                 IF RegistersInSuper(on_recursion) /\ super_exclude_list # NoList
                 THEN [st EXCEPT !.lists[super_exclude_list] = Append(@, dir)]
                 ELSE st
             child_list == IF push_config.variant = "Trigger" THEN super_exclude_list ELSE own
             joined == process_subdirs_seq(Subdirs(dir), 1, Some(config), child_list,
                                           [registered EXCEPT !.res = "ok"])
             reaped == [ dir |-> dir,
                         exclude_list |-> IF push_config.variant = "Trigger"
                                          THEN <<>> ELSE joined.lists[own] ]
         IN  IF ~Accepted(push_config)
             THEN [st EXCEPT !.res = "ok"]
             ELSE IF StrategyPanics(on_recursion)
             THEN [st EXCEPT !.res = "panic"]
             ELSE IF ~ShouldCreateTask(on_recursion)
             THEN [registered EXCEPT !.res = "ok"]
             ELSE IF push_config.variant = "Trigger" /\ super_exclude_list = NoList
             THEN [registered EXCEPT !.res = "panic"]
             ELSE IF joined.res # "ok"
             THEN [joined EXCEPT !.res = "err"]
             ELSE loop_seq(dir, config, super_exclude_list, own, idx + 1,
                      [joined EXCEPT !.tasks = Append(@, NewTask(reaped, push_config))])

\* collect_tasks of one directory.
collect_tasks_seq(dir, super_config, super_exclude_list, st) ==
    LET excluded == /\ super_exclude_list # NoList
                    /\ Contains(st.lists[super_exclude_list], dir)
        hidden == ~cli_config.search_hidden /\ fs[dir].hidden
        trivial == ~IsSome(fs[dir].config) /\ ~fs[dir].is_git_repo
    IN  IF excluded \/ hidden
        THEN [st EXCEPT !.res = "ok"]
        ELSE IF trivial
        THEN process_subdirs_seq(Subdirs(dir), 1, super_config, super_exclude_list,
                                 [st EXCEPT !.res = "ok"])
        ELSE IF load_config_fails(dir) \/ inherit_config_panics(LocalConfig(dir), super_config)
        THEN [st EXCEPT !.res = "panic"]
        ELSE loop_seq(dir, inherit_config(LocalConfig(dir), super_config),
                      super_exclude_list, Len(st.lists) + 1, 1,
                      [st EXCEPT !.lists = Append(@, <<>>)])

\* What the claim compares of a task: its kind, its root and its exclude
\* list as a set of paths.
TaskKey(task) ==
    [ kind |-> task.kind, dir |-> task.dir,
      exclude |-> {task.exclude_list[i] : i \in 1..Len(task.exclude_list)} ]

\* How many tasks of the list have this key.
CountOf(tasks, key) == Cardinality({i \in 1..Len(tasks) : TaskKey(tasks[i]) = key})

SameMultiset(a, b) ==
    /\ Len(a) = Len(b)
    /\ \A i \in 1..Len(a) : CountOf(a, TaskKey(a[i])) = CountOf(b, TaskKey(a[i]))

\* The keys of the tasks whose root is dir or one of its ancestors, in the
\* order of the list.
RECURSIVE AlongPath(_, _)
AlongPath(tasks, dir) ==
    IF tasks = <<>>
    THEN <<>>
    ELSE IF StripPrefixOk(dir, Head(tasks).dir)
         THEN <<TaskKey(Head(tasks))>> \o AlongPath(Tail(tasks), dir)
         ELSE AlongPath(Tail(tasks), dir)

\* Every invocation of collect_tasks has returned or panicked.
AllFinished == \A c \in CallIds : calls[c].pc \in Finished

\* C13: whatever the interleaving of the spawned traversals, when all of
\* them have finished the task list holds the tasks (kind, root, exclude list
\* as a set) of the traversal that visits the subdirectories one after the
\* other, each as often, the root invocation has the same result, and the
\* tasks of the directories along one path of the tree are in the same
\* order: only tasks of unrelated subtrees may change places.
C13_InterleavingIndependent ==
    AllFinished =>
        LET seq == collect_tasks_seq(Root, None, NoList, SeqStart)
        IN  /\ SameMultiset(task_list, seq.tasks)
            /\ calls[1].pc = seq.res
            /\ \A d \in Dirs : AlongPath(task_list, d) = AlongPath(seq.tasks, d)

\* C13 witness: all traversals have finished and two tasks of unrelated
\* subtrees are in the list in the order opposite to that of the spawns.
C13_Witness ==
    /\ AllFinished
    /\ \E t1, t2 \in TaskIds :
           /\ t1 < t2
           /\ task_list[t1].dir = <<2>>
           /\ task_list[t2].dir \in {<<1>>, <<1, 1>>}
    /\ \E t \in TaskIds : task_list[t].exclude_list # <<>>

\* ------------------------------------------------------------------------
\* The exclude list of a directory after its snapshot
\* ------------------------------------------------------------------------

\* Invocation c has taken the snapshot of its exclude list for a task.
Snapshotted(c) == HasConfig(c) /\ (calls[c].pc = "push" \/ calls[c].idx > 1)

\* C14: from the snapshot a task of the directory is constructed with, the
\* exclude list the invocation owns stays what the snapshot holds, and at
\* the snapshot no traversal that was handed the list is still running.
C14_ExcludeListFrozen ==
    \A c \in CallIds :
        Snapshotted(c) =>
            /\ exclude_lists[c] = calls[c].exclude_list
            /\ calls[c].pc = "push" =>
                   \A k \in CallIds :
                       calls[k].super_exclude_list = c => calls[k].pc \in Finished

\* C14 witness: a directory has a task with a non-empty exclude_list, its
\* loop has gone on to a second section and spawned the traversals of its
\* subdirectories again, and one of them has finished.
C14_Witness ==
    \E c \in CallIds :
        /\ Snapshotted(c)
        /\ calls[c].idx = 2
        /\ calls[c].pc = "join"
        /\ calls[c].exclude_list # <<>>
        /\ \E k \in calls[c].children : calls[k].pc \in Finished

\* ------------------------------------------------------------------------
\* A dionysius.toml that fails to load
\* ------------------------------------------------------------------------

\* Invocation c has visited a directory whose dionysius.toml fails to load.
VisitedBadToml(c) == calls[c].pc = "panic" /\ load_config_fails(calls[c].dir)

\* C15: once an invocation has visited a directory whose dionysius.toml
\* fails to load, the invocation of every directory above it, the root
\* included, never returns Ok, and push_main previews, prints or executes no
\* task.
C15_LoadFailureIsFatal ==
    \A c \in CallIds :
        VisitedBadToml(c) =>
            /\ \A k \in CallIds :
                   StripPrefixOk(calls[c].dir, calls[k].dir) /\ c \in DescendantCalls(k)
                       => calls[k].pc # "ok"
            /\ calls[1].pc # "ok"
            /\ main.pc # "done"
            /\ main.ran = <<>>

\* C15 witness: a dionysius.toml below the root failed to load, a sibling
\* traversal left its task in the list, the root invocation returned the
\* error and push_main panicked on it.
C15_Witness ==
    /\ \E c \in CallIds : VisitedBadToml(c) /\ calls[c].dir # Root
    /\ task_list # <<>>
    /\ calls[1].pc = "err"
    /\ main.pc = "panic"

\* ------------------------------------------------------------------------
\* Hidden directories
\* ------------------------------------------------------------------------

\* With search_hidden off, nothing happens at or below hidden directory h:
\* no task, no entry of an exclude list, no config loaded, no traversal
\* spawned from it.
HiddenUntouched(h) ==
    /\ \A t \in TaskIds : ~StripPrefixOk(task_list[t].dir, h)
    /\ \A l \in DOMAIN exclude_lists :
           \A i \in 1..Len(exclude_lists[l]) : ~StripPrefixOk(exclude_lists[l][i], h)
    /\ \A c \in CallIds :
           StripPrefixOk(calls[c].dir, h) =>
               /\ calls[c].dir = h
               /\ calls[c].pc \in {"start", "ok"}
               /\ ~HasConfig(c)
               /\ calls[c].children = {}

\* A step in which invocation c returns at its entry.
ReturnsAtEntry(c) == calls[c].pc = "start" /\ calls'[c].pc = "ok"

\* C16: with search_hidden off no task is created at or below a hidden
\* directory and the directory is in no exclude list; an invocation returns
\* at its entry only when the handed exclude list holds its directory or
\* when its directory is hidden and search_hidden is off, so with
\* search_hidden on a hidden directory is traversed like the others.
C16_HiddenDirectories ==
    /\ [](~cli_config.search_hidden =>
              \A h \in Dirs : fs[h].hidden => HiddenUntouched(h))
    /\ [][\A c \in CallIds :
              ReturnsAtEntry(c) =>
                  \/ /\ calls[c].super_exclude_list # NoList
                     /\ Contains(exclude_lists[calls[c].super_exclude_list], calls[c].dir)
                  \/ ~cli_config.search_hidden /\ fs[calls[c].dir].hidden]_vars

\* C16 witness: search_hidden is off, a hidden directory with a
\* dionysius.toml lies below a directory that has its task, with an empty
\* exclude_list, and the run has returned Ok.
C16_Witness ==
    /\ ~cli_config.search_hidden
    /\ RunOk
    /\ \E h \in Dirs :
           /\ fs[h].hidden
           /\ IsSome(fs[h].config)
           /\ \E c \in CallIds : calls[c].dir = h /\ calls[c].pc = "ok"
           /\ \E t \in TaskIds :
                  /\ IsProperAncestor(task_list[t].dir, h)
                  /\ task_list[t].exclude_list = <<>>

\* ------------------------------------------------------------------------
\* Directories with neither dionysius.toml nor .git
\* ------------------------------------------------------------------------

\* The directory has neither a dionysius.toml nor a .git directory.
IsTrivial(dir) == ~IsSome(fs[dir].config) /\ ~fs[dir].is_git_repo

\* C17: a directory with neither dionysius.toml nor .git has no task and is
\* in no exclude list, its invocation loads no config and owns no exclude
\* list, and past its entry it has spawned one traversal per subdirectory,
\* each with the super config and the super exclude list the invocation
\* itself received.
C17_TrivialDirectoryTransparent ==
    /\ \A t \in TaskIds : ~IsTrivial(task_list[t].dir)
    /\ \A l \in DOMAIN exclude_lists :
           \A i \in 1..Len(exclude_lists[l]) : ~IsTrivial(exclude_lists[l][i])
    /\ \A c \in CallIds :
           IsTrivial(calls[c].dir) =>
               /\ ~HasConfig(c)
               /\ calls[c].pc \in {"start", "join_trivial", "ok", "err"}
               /\ \A k \in CallIds : calls[k].super_exclude_list # c
               /\ calls[c].pc # "start" =>
                      /\ {calls[k].dir : k \in calls[c].children}
                             = {d \in Dirs : IsChild(calls[c].dir, d)}
                      /\ Cardinality(calls[c].children)
                             = Cardinality({d \in Dirs : IsChild(calls[c].dir, d)})
               /\ \A k \in calls[c].children :
                      /\ calls[k].parent = c
                      /\ calls[k].super_config = calls[c].super_config
                      /\ calls[k].super_exclude_list = calls[c].super_exclude_list

\* C17 witness: a directory with neither dionysius.toml nor .git, below a
\* configured directory, has handed config and exclude list on to a
\* subdirectory that registered itself in that list and has its task.
C17_Witness ==
    \E c, k \in CallIds :
        /\ IsTrivial(calls[c].dir)
        /\ calls[c].super_exclude_list # NoList
        /\ IsSome(calls[c].super_config)
        /\ k \in calls[c].children
        /\ Contains(exclude_lists[calls[c].super_exclude_list], calls[k].dir)
        /\ HasTask(calls[k].dir)
        /\ calls[c].pc = "ok"

\* ------------------------------------------------------------------------
\* Directories found in the exclude list handed to them
\* ------------------------------------------------------------------------

\* The exclude list handed to invocation c holds its directory.
InHandedList(c) ==
    /\ calls[c].super_exclude_list # NoList
    /\ Contains(exclude_lists[calls[c].super_exclude_list], calls[c].dir)

\* Invocation c has returned at its entry: it is past its start without
\* config and without spawned traversals, at a directory that has a
\* dionysius.toml or a .git directory.
ReturnedAtEntry(c) ==
    /\ calls[c].pc = "ok"
    /\ ~HasConfig(c)
    /\ ~IsTrivial(calls[c].dir)

\* C18: the step an invocation takes from its entry when the handed
\* exclude list holds its directory is the return of Ok: it appends no task,
\* changes no exclude list and spawns nothing; and an invocation that has
\* returned at its entry has spawned no traversal.
C18_ExcludedReturnsAtOnce ==
    /\ [](\A c \in CallIds :
              ReturnedAtEntry(c) =>
                  /\ calls[c].children = {}
                  /\ \A k \in CallIds : calls[k].parent # c)
    /\ [][\A c \in CallIds :
              (calls[c].pc = "start" /\ calls'[c].pc # "start" /\ InHandedList(c)) =>
                  /\ calls'[c] = [calls[c] EXCEPT !.pc = "ok"]
                  /\ Len(calls') = Len(calls)
                  /\ task_list' = task_list
                  /\ exclude_lists' = exclude_lists]_vars

\* C18 witness: a directory with a dionysius.toml and a subdirectory was
\* spawned a second time by its parent, found itself in the handed list and
\* returned; the subdirectory was visited once only.
C18_Witness ==
    \E c \in CallIds :
        /\ ReturnedAtEntry(c)
        /\ InHandedList(c)
        /\ calls[c].dir = <<1>>
        /\ IsSome(fs[<<1>>].config)
        /\ Cardinality({k \in CallIds : calls[k].dir = <<1, 1>>}) = 1
        /\ AllFinished

\* ------------------------------------------------------------------------
\* Properties of GitSaveTask::execute
\* ------------------------------------------------------------------------

\* C19: in either mode, a push in the actions of a run has a fetch before
\* it, the fetch succeeded, and upstream_status after it found the branch
\* ahead of and not behind its upstream; no run pushes twice.
C19_PushOnlyAheadAfterFetch ==
    \A run_mode \in CaptureModes :
        \A i \in 1..Len(Actions(run_mode)) :
            Actions(run_mode)[i] = "push" =>
                /\ \E j \in 1..(i - 1) : Actions(run_mode)[j] = "fetch"
                /\ git.runs[run_mode].fetched
                /\ git.runs[run_mode].seen = <<TRUE, FALSE>>
                /\ \A j \in 1..Len(Actions(run_mode)) : Actions(run_mode)[j] = "push" => j = i

\* C19 witness: an execution saved a dirty working tree, committed, fetched
\* and pushed, and another repository state ended without a push is not
\* needed: here the run that performs the actions has pushed.
C19_Witness ==
    /\ git.runs["execute"].pc = "done"
    /\ git.runs["execute"].log = <<"add", "commit", "fetch", "push">>
    /\ git.runs["execute"].result = "Ok"

\* C20: when both runs on one repository state have ended and the run
\* that performs the actions returned Ok, the subcommands of the captured
\* command lines are, in order, the actions that run performed.
C20_CapturedLinesAreTheActions ==
    ( /\ git.runs["shell"].pc = "done"
      /\ git.runs["execute"].pc = "done"
      /\ git.runs["execute"].result = "Ok" )
        => Actions("shell") = Actions("execute")

\* ------------------------------------------------------------------------
\* push_main: the loop over the collected tasks
\* ------------------------------------------------------------------------

\* The tasks a task list can hold (a TriggerTask is never created).
TaskKinds == {"GitSaveTask", "BorgCreateTask"}

\* The task lists of the loop hold at most this many tasks.
MaxTasks == 3

\* The task lists the loop is run on.
TaskLists == UNION { [1..n -> TaskKinds] : n \in 0..MaxTasks }

\* The Debug format of the `borg create` command of a BorgCreateTask.
BorgCommandLine == <<"borg", "create", "--stats", "/backup", "R">>

\* What execute(&mut Some(list)) of a task can append to the list:
\* autosave_and_push captures up to four command lines and may return Err
\* before any of them (the repository cannot be opened, on_unsave =
\* interrupt); BorgCreateTask::execute captures its one command line.
Captures(kind) ==
    IF kind = "GitSaveTask"
    THEN { [lines |-> <<>>, result |-> "err"],
           [lines |-> <<CommandLine(<<"fetch">>)>>, result |-> "ok"],
           [lines |-> <<CommandLine(<<"add", ".">>), CommandLine(<<"fetch">>)>>, result |-> "ok"],
           [lines |-> <<CommandLine(<<"fetch">>), CommandLine(<<"push">>)>>, result |-> "ok"] }
    ELSE { [lines |-> <<BorgCommandLine>>, result |-> "ok"] }

\* What execute(&mut None) of a task can come to. spawned: the processes
\* launched; result: "ok", "err" (autosave_and_push returned Err),
\* "nonzero" (borg exited with a non-zero status), "panic" (the process
\* could not be launched: Command::output() returned Err, then expect()).
Executions(kind) ==
    IF kind = "GitSaveTask"
    THEN { [spawned |-> <<"git fetch">>, result |-> "ok"],
           [spawned |-> <<"git fetch", "git push">>, result |-> "ok"],
           [spawned |-> <<>>, result |-> "err"],
           [spawned |-> <<"git fetch">>, result |-> "err"],
           [spawned |-> <<"git fetch", "git push">>, result |-> "err"],
           [spawned |-> <<>>, result |-> "panic"] }
    ELSE { [spawned |-> <<"borg create">>, result |-> "ok"],
           [spawned |-> <<"borg create">>, result |-> "nonzero"],
           [spawned |-> <<>>, result |-> "panic"] }

\* GitSaveTask::execute prints the Err of autosave_and_push to stderr;
\* BorgCreateTask::execute drops the Output of the process.
ReportsFailure(kind, result) == kind = "GitSaveTask" /\ result = "err"

\* commands.join("\n")
RECURSIVE join(_, _)
join(lines, sep) ==
    IF Len(lines) = 0 THEN <<>>
    ELSE IF Len(lines) = 1 THEN lines[1]
    ELSE lines[1] \o <<sep>> \o join(Tail(lines), sep)

\* let mut command_list = if execute_mode { None } else { Some(Vec::new()) };
CommandList_none(execute_mode) == None

CommandList(execute_mode) == IF execute_mode THEN None ELSE Some(<<>>)

\* push_main once collect_tasks has returned Ok: the flags and the task list.
ExecInit ==
    /\ task_type_id \in {"git", "borg"}
    /\ cli_config = [search_hidden |-> FALSE]
    /\ fs = [d \in Dirs |-> [hidden |-> FALSE, is_git_repo |-> FALSE, config |-> None]]
    /\ calls = <<>>
    /\ exclude_lists = <<>>
    /\ task_list = <<>>
    /\ main = [pc |-> "done", mode |-> "", ran |-> <<>>]
    /\ git = GitIdle
    /\ sect = SectIdle
    /\ pats = PatsIdle
    /\ \E preview_mode \in BOOLEAN, execute_mode \in BOOLEAN, tasks \in TaskLists :
           exec = [ preview_mode |-> preview_mode,
                    execute_mode |-> execute_mode,
                    tasks        |-> tasks,
                    pc           |-> "loop",
                    i            |-> 1,
                    command_list |-> IF preview_mode THEN None ELSE CommandList(execute_mode),
                    previewed    |-> <<>>,
                    executed     |-> <<>>,
                    spawned      |-> <<>>,
                    failed       |-> {},
                    reported     |-> {},
                    printed      |-> None ]

\* for task in result.iter() { task.preview().unwrap(); }
PreviewTask ==
    /\ exec # ExecIdle
    /\ exec.pc = "loop"
    /\ exec.preview_mode
    /\ exec.i <= Len(exec.tasks)
    /\ \E result \in {"ok", "err"} :
           exec' = [exec EXCEPT !.previewed = Append(@, exec.i),
                                !.i = @ + 1,
                                !.pc = IF result = "err" THEN "panic" ELSE @]
    /\ UNCHANGED <<task_type_id, cli_config, fs, calls, exclude_lists, task_list, main, git, sect, pats>>

\* for task in result.iter() { task.execute(&mut command_list); }
ExecuteTask ==
    /\ exec # ExecIdle
    /\ exec.pc = "loop"
    /\ ~exec.preview_mode
    /\ exec.i <= Len(exec.tasks)
    /\ LET kind == exec.tasks[exec.i] IN
       IF IsSome(exec.command_list)
       THEN \E cap \in Captures(kind) :
                exec' = [exec EXCEPT
                    !.executed = Append(@, [task |-> exec.i, capture |-> TRUE]),
                    !.command_list = Some(Unwrap(@) \o cap.lines),
                    !.failed = IF cap.result = "ok" THEN @ ELSE @ \cup {exec.i},
                    !.reported = IF ReportsFailure(kind, cap.result) THEN @ \cup {exec.i} ELSE @,
                    !.i = @ + 1]
       ELSE \E ex \in Executions(kind) :
                exec' = [exec EXCEPT
                    !.executed = Append(@, [task |-> exec.i, capture |-> FALSE]),
                    !.spawned = @ \o ex.spawned,
                    !.failed = IF ex.result = "ok" THEN @ ELSE @ \cup {exec.i},
                    !.reported = IF ReportsFailure(kind, ex.result) THEN @ \cup {exec.i} ELSE @,
                    !.pc = IF ex.result = "panic" THEN "panic" ELSE @,
                    !.i = @ + 1]
    /\ UNCHANGED <<task_type_id, cli_config, fs, calls, exclude_lists, task_list, main, git, sect, pats>>

\* The end of the loop: if let Some(commands) = command_list
\* { println!("{}", commands.join("\n")); }
Finish ==
    /\ exec # ExecIdle
    /\ exec.pc = "loop"
    /\ exec.i > Len(exec.tasks)
    /\ exec' = [exec EXCEPT
           !.pc = "done",
           !.printed = IF ~exec.preview_mode /\ IsSome(exec.command_list)
                       THEN Some(join(Unwrap(exec.command_list), "\n"))
                       ELSE None]
    /\ UNCHANGED <<task_type_id, cli_config, fs, calls, exclude_lists, task_list, main, git, sect, pats>>

ExecNext == PreviewTask \/ ExecuteTask \/ Finish

ExecSpec == ExecInit /\ [][ExecNext]_vars

\* The tasks of the list that execute has been called on.
ExecutedTasks == { exec.executed[k].task : k \in 1..Len(exec.executed) }

\* The loop is over: it ran to its end or a panic ended the process.
LoopOver == exec.pc \in {"done", "panic"}

\* C21: in the execute phase a failure of a task (a failing git step, a
\* borg invocation that fails or exits non-zero) is reported for that task,
\* and every later task of the list is still executed.
C21_FailureReportedAndBatchGoesOn ==
    (exec # ExecIdle /\ ~exec.preview_mode /\ exec.execute_mode) =>
        /\ exec.failed \subseteq exec.reported
        /\ LoopOver => ExecutedTasks = 1..Len(exec.tasks)

\* The lines of a printed text: the pieces between the separators.
RECURSIVE lines_of(_, _, _)
lines_of(text, sep, acc) ==
    IF Len(text) = 0 THEN <<acc>>
    ELSE IF Head(text) = sep
         THEN <<acc>> \o lines_of(Tail(text), sep, <<>>)
         ELSE lines_of(Tail(text), sep, Append(acc, Head(text)))

\* C22: with the preview flag only preview is called and nothing is
\* executed, whatever the execute flag; with neither flag every task gets
\* the capture buffer, no git or borg process is spawned, and the captured
\* lines are printed joined by newlines.
C22_PreviewAndPrintRunNothing ==
    exec # ExecIdle =>
        /\ exec.preview_mode =>
              /\ exec.executed = <<>>
              /\ exec.spawned = <<>>
              /\ exec.printed = None
              /\ exec.previewed = [k \in 1..(exec.i - 1) |-> k]
        /\ (~exec.preview_mode /\ ~exec.execute_mode) =>
              /\ exec.previewed = <<>>
              /\ \A k \in 1..Len(exec.executed) : exec.executed[k].capture
              /\ exec.spawned = <<>>
              /\ exec.pc = "done" =>
                    /\ IsSome(exec.printed)
                    /\ IF Unwrap(exec.command_list) = <<>>
                       THEN Unwrap(exec.printed) = <<>>
                       ELSE lines_of(Unwrap(exec.printed), "\n", <<>>) = Unwrap(exec.command_list)
        /\ (~exec.preview_mode /\ exec.execute_mode) => exec.printed = None

\* The printed command list of a git task and a borg task.
C22_Witness ==
    /\ exec # ExecIdle
    /\ ~exec.preview_mode /\ ~exec.execute_mode
    /\ exec.pc = "done"
    /\ \E a, b \in 1..Len(exec.tasks) :
           exec.tasks[a] = "GitSaveTask" /\ exec.tasks[b] = "BorgCreateTask"
    /\ Len(Unwrap(exec.command_list)) >= 3
    /\ IsSome(exec.printed)

\* ------------------------------------------------------------------------
\* Completion of a handler section
\* ------------------------------------------------------------------------

\* The [git.target] and [borg.target] tables a file may hold: absent, or a
\* table with or without its mode and its target string.
RawTargets ==
    {None} \cup
    { Some([mode |-> m, target |-> t]) :
        m \in {None, Some("path"), Some("gitconfig"), Some("ssh")},
        t \in {None, Some("/backup")} }

\* The [git.assets] and [git.heritage] tables a file may hold: absent, or
\* any subset of the fields set (to values that are not the defaults).
RawGitTables ==
    {None} \cup
    { Some(table) : table \in
        [ trigger_by   : {None, Some(<<"git">>)},
          on_unsave    : {None, Some("ignore")},
          on_recursion : {None, Some("standalone")},
          ignore_child : {None, Some(TRUE)} ] }

\* The [borg.assets] and [borg.heritage] tables a file may hold.
RawBorgTables ==
    {None} \cup
    { Some(table) : table \in
        [ trigger_by         : {None, Some(<<"git", "borg">>)},
          exclude_list       : {None, Some(<<"sh:cache">>)},
          extra_exclude_mode : {None, Some(<<>>)},
          on_recursion       : {None, Some("standalone")},
          ignore_child       : {None, Some(TRUE)} ] }

\* The handler sections as deserialized from a dionysius.toml.
RawSections ==
    { PushTaskConfig("Git", [target |-> t, assets |-> a, heritage |-> h]) :
        t \in RawTargets, a \in RawGitTables, h \in RawGitTables }
    \cup
    { PushTaskConfig("Borg", [target |-> t, assets |-> a, heritage |-> h]) :
        t \in RawTargets, a \in RawBorgTables, h \in RawBorgTables }

\* The file that holds the section alone.
FileOf(push_config) ==
    [ trigger |-> None,
      git     |-> IF push_config.variant = "Git" THEN Some(push_config) ELSE None,
      borg    |-> IF push_config.variant = "Borg" THEN Some(push_config) ELSE None ]

\* A section as deserialized, before completion() and load_raw_config().
SectInit ==
    /\ task_type_id = "git"
    /\ cli_config = [search_hidden |-> FALSE]
    /\ fs = [d \in Dirs |-> [hidden |-> FALSE, is_git_repo |-> FALSE, config |-> None]]
    /\ calls = <<>>
    /\ exclude_lists = <<>>
    /\ task_list = <<>>
    /\ main = MainCollecting
    /\ git = GitIdle
    /\ exec = ExecIdle
    /\ pats = PatsIdle
    /\ \E raw \in RawSections :
           sect = [raw |-> raw, completed |-> None, loaded |-> None]

\* completion() of the section
Completion ==
    /\ sect # SectIdle
    /\ sect.completed = None
    /\ sect' = [sect EXCEPT !.completed = Some(PushTaskConfig_completion(sect.raw))]
    /\ UNCHANGED <<task_type_id, cli_config, fs, calls, exclude_lists, task_list, main, git, exec, pats>>

\* load_raw_config() of the file that holds the section
LoadRawConfig ==
    /\ sect # SectIdle
    /\ sect.loaded = None
    /\ sect' = [sect EXCEPT !.loaded = Some(load_raw_config(FileOf(sect.raw)))]
    /\ UNCHANGED <<task_type_id, cli_config, fs, calls, exclude_lists, task_list, main, git, exec, pats>>

SectNext == Completion \/ LoadRawConfig

SectSpec == SectInit /\ [][SectNext]_vars

\* The target of a section is valid: the table is there, with its target
\* string and a mode the handler knows.
ValidTarget(push_config) ==
    /\ IsSome(push_config.conf.target)
    /\ IsSome(Unwrap(push_config.conf.target).target)
    /\ IsSome(Unwrap(push_config.conf.target).mode)
    /\ Unwrap(Unwrap(push_config.conf.target).mode) \in
           (IF push_config.variant = "Git" THEN {"gitconfig", "path"} ELSE {"path"})

\* Every field of the table that was set has the same value in the other.
KeepsTable(before, after) ==
    IsSome(before) =>
        /\ IsSome(after)
        /\ \A f \in DOMAIN Unwrap(before) :
               IsSome(Unwrap(before)[f]) => Unwrap(after)[f] = Unwrap(before)[f]

\* completion() has been applied to the section.
Completed == sect # SectIdle /\ IsSome(sect.completed)

\* C23: for every git or borg section with a valid target, completion()
\* returns a config on which is_complete() is true, and every field that
\* was set in the input keeps its value.
C23_CompletionCompletes ==
    (Completed /\ ValidTarget(sect.raw)) =>
        LET out == Unwrap(sect.completed) IN
        /\ out.result = "Ok"
        /\ PushTaskConfig_is_complete(Unwrap(out.config))
        /\ Unwrap(out.config).variant = sect.raw.variant
        /\ Unwrap(out.config).conf.target = sect.raw.conf.target
        /\ KeepsTable(sect.raw.conf.assets, Unwrap(out.config).conf.assets)
        /\ KeepsTable(sect.raw.conf.heritage, Unwrap(out.config).conf.heritage)

\* A section with only its target: completion fills the rest.
C23_Witness ==
    /\ Completed
    /\ ValidTarget(sect.raw)
    /\ sect.raw.conf.assets = None
    /\ sect.raw.conf.heritage = None
    /\ ~PushTaskConfig_is_complete(sect.raw)
    /\ Unwrap(sect.completed).result = "Ok"
    /\ PushTaskConfig_is_complete(Unwrap(Unwrap(sect.completed).config))

\* C24: completion of a git or borg section with no target, no target
\* string or an invalid target mode fails with an error value and yields no
\* completed config.
C24_BadTargetFailsCompletion ==
    (Completed /\ ~ValidTarget(sect.raw)) =>
        /\ Unwrap(sect.completed).result = "Err"
        /\ Unwrap(sect.completed).config = None

\* The scalar of a table of a section: None when the table or the field is
\* not there.
Scalar(table, f) == IF IsSome(table) THEN Unwrap(table)[f] ELSE None

\* The scalar was missing in the input and has this value in the output.
Filled(before, after, f, default) ==
    Scalar(before, f) = None => Scalar(after, f) = Some(default)

\* C26: completion fills every missing scalar of a present handler section
\* with the handler default, also when the assets or heritage table is
\* present but partial: git gets trigger_by=[git,borg], on_unsave=save,
\* on_recursion=inherit, ignore_child=false; borg gets trigger_by=[borg],
\* extra_exclude_mode=[git], on_recursion=inherit, ignore_child=false.
C26_MissingScalarsGetDefaults ==
    (Completed /\ Unwrap(sect.completed).result = "Ok") =>
        LET in  == sect.raw.conf
            out == Unwrap(Unwrap(sect.completed).config).conf
        IN  IF sect.raw.variant = "Git"
            THEN /\ Filled(in.assets, out.assets, "trigger_by", <<"git", "borg">>)
                 /\ Filled(in.assets, out.assets, "on_unsave", "save")
                 /\ Filled(in.assets, out.assets, "on_recursion", "inherit")
                 /\ Filled(in.heritage, out.heritage, "on_recursion", "inherit")
                 /\ Filled(in.heritage, out.heritage, "ignore_child", FALSE)
            ELSE /\ Filled(in.assets, out.assets, "trigger_by", <<"borg">>)
                 /\ Filled(in.assets, out.assets, "extra_exclude_mode", <<"git">>)
                 /\ Filled(in.assets, out.assets, "on_recursion", "inherit")
                 /\ Filled(in.heritage, out.heritage, "on_recursion", "inherit")
                 /\ Filled(in.heritage, out.heritage, "ignore_child", FALSE)

\* The [borg] section of the config the invocation loaded from its
\* dionysius.toml.
LoadedBorgSection(c) ==
    IF HasConfig(c) /\ IsSome(fs[calls[c].dir].config)
    THEN Unwrap(calls[c].config).borg
    ELSE None

\* The invocation panicked while building the BorgCreateTask.
PanickedOnTarget(c) ==
    /\ calls[c].pc = "panic"
    /\ HasConfig(c)
    /\ calls[c].idx \in 1..Len(Sections(c))
    /\ TargetMissing(CurrentSection(calls[c]))

\* C25: is_complete() holds only if the target of every present section is
\* valid, so every config that load_config returns with a borg section
\* carries a target of mode path with a target string, and building a
\* BorgCreateTask never finds the target missing.
C25_LoadedBorgTargetIsValid ==
    \A c \in CallIds :
        /\ IsSome(LoadedBorgSection(c)) => ValidTarget(Unwrap(LoadedBorgSection(c)))
        /\ ~PanickedOnTarget(c)

\* ------------------------------------------------------------------------
\* Exclude patterns (handlers/exclude.rs). A pattern string is the sequence
\* of its characters.
\* ------------------------------------------------------------------------

\* str::starts_with
starts_with(str, prefix) ==
    Len(str) >= Len(prefix) /\ SubSeq(str, 1, Len(prefix)) = prefix

\* str::ends_with
ends_with(str, suffix) ==
    Len(str) >= Len(suffix) /\ SubSeq(str, Len(str) - Len(suffix) + 1, Len(str)) = suffix

\* str.chars().skip(n).collect()
skip(str, n) == SubSeq(str, n + 1, Len(str))

\* str::contains
str_contains(str, pat) ==
    \E i \in 1..(Len(str) - Len(pat) + 1) : SubSeq(str, i, i + Len(pat) - 1) = pat

\* str::replace: the matches are replaced from left to right and do not
\* overlap.
RECURSIVE replace(_, _, _)
replace(str, from, to) ==
    IF Len(str) = 0 THEN <<>>
    ELSE IF starts_with(str, from)
         THEN to \o replace(skip(str, Len(from)), from, to)
         ELSE <<Head(str)>> \o replace(Tail(str), from, to)

\* enum BorgPattern
BorgPatternKinds == {"FnMatch", "Shell", "Regex", "PathPrefix", "PathFullMatch"}

BorgPattern(kind, payload) == [kind |-> kind, pattern |-> payload]

\* struct GitIgnorePattern
GitIgnorePattern(pattern) == [kind |-> "GitIgnore", pattern |-> pattern]

\* The prefix of a pattern kind: fm: sh: re: pp: pf:
Prefix(kind) ==
    CASE kind = "FnMatch"       -> <<"f", "m", ":">>
      [] kind = "Shell"         -> <<"s", "h", ":">>
      [] kind = "Regex"         -> <<"r", "e", ":">>
      [] kind = "PathPrefix"    -> <<"p", "p", ":">>
      [] kind = "PathFullMatch" -> <<"p", "f", ":">>

\* The Result of a conversion.
Converted(value) == [result |-> "Ok", value |-> value]

Rejected(message) == [result |-> "Err", message |-> message]

\* impl TryFrom<String> for BorgPattern
BorgPattern_try_from_String(pattern_str) ==
    IF \E kind \in BorgPatternKinds : starts_with(pattern_str, Prefix(kind))
    THEN LET kind == CHOOSE k \in BorgPatternKinds : starts_with(pattern_str, Prefix(k))
         IN  Converted(BorgPattern(kind, skip(pattern_str, 3)))
    ELSE Rejected("Currently you must specify pattern type.")

\* impl TryFrom<GitIgnorePattern> for BorgPattern
BorgPattern_try_from_GitIgnorePattern_bare(git_pattern) ==
    IF starts_with(git_pattern.pattern, <<"!">>)
    THEN Rejected("Negation is not supported")
    ELSE Converted(BorgPattern("Shell",
             IF starts_with(git_pattern.pattern, <<"/">>)
             THEN skip(git_pattern.pattern, 1) ELSE git_pattern.pattern))

BorgPattern_try_from_GitIgnorePattern_anchored(git_pattern) ==
    IF starts_with(git_pattern.pattern, <<"!">>)
    THEN Rejected("Negation is not supported")
    ELSE Converted(BorgPattern("Shell",
             IF ~str_contains(replace(git_pattern.pattern, <<"\\", "/">>, <<>>), <<"/">>)
             THEN <<"*", "*", "/">> \o git_pattern.pattern
             ELSE git_pattern.pattern))

BorgPattern_try_from_GitIgnorePattern(git_pattern) ==
    LET pattern0 == git_pattern.pattern
        pattern1 == IF ~str_contains(replace(pattern0, <<"\\", "/">>, <<>>), <<"/">>)
                    THEN <<"*", "*", "/">> \o pattern0
                    ELSE pattern0
        pattern2 == IF starts_with(pattern1, <<"/">>) THEN skip(pattern1, 1) ELSE pattern1
    IN  IF starts_with(pattern0, <<"!">>)
        THEN Rejected("Negation is not supported")
        ELSE Converted(BorgPattern("Shell", pattern2))

\* impl TryFrom<BorgPattern> for GitIgnorePattern
GitIgnorePattern_try_from_BorgPattern_open(borg_pattern) ==
    IF borg_pattern.kind \in {"FnMatch", "Regex"}
    THEN Rejected("Cannot convert pattern to gitignore pattern")
    ELSE Converted(GitIgnorePattern(
             IF starts_with(borg_pattern.pattern, <<"/">>)
             THEN borg_pattern.pattern ELSE <<"/">> \o borg_pattern.pattern))

GitIgnorePattern_try_from_BorgPattern_shell_only(borg_pattern) ==
    IF borg_pattern.kind # "Shell"
    THEN Rejected("Cannot convert pattern to gitignore pattern")
    ELSE Converted(GitIgnorePattern(
             IF starts_with(borg_pattern.pattern, <<"/">>)
             THEN borg_pattern.pattern ELSE <<"/">> \o borg_pattern.pattern))

GitIgnorePattern_try_from_BorgPattern(borg_pattern) ==
    LET p  == borg_pattern.pattern
        p1 == IF ~starts_with(p, <<"/">>) THEN <<"/">> \o p ELSE p
        p2 == IF ~ends_with(p1, <<"/">>) THEN p1 \o <<"/">> ELSE p1
    IN  CASE borg_pattern.kind = "FnMatch" ->
                Rejected("Cannot convert fnmatch pattern to gitignore pattern")
          [] borg_pattern.kind = "Regex" ->
                Rejected("Cannot convert regex pattern to gitignore pattern")
          [] borg_pattern.kind = "PathPrefix" -> Converted(GitIgnorePattern(p2))
          [] OTHER -> Converted(GitIgnorePattern(p1))

\* impl TryFrom<String> for GitIgnorePattern
GitIgnorePattern_try_from_String(pattern_str) ==
    IF \E kind \in BorgPatternKinds : starts_with(pattern_str, Prefix(kind))
    THEN LET borg_pattern == BorgPattern_try_from_String(pattern_str)
         IN  IF borg_pattern.result = "Err"
             THEN borg_pattern
             ELSE GitIgnorePattern_try_from_BorgPattern(borg_pattern.value)
    ELSE Converted(GitIgnorePattern(pattern_str))

\* line.trim().is_empty()
trim_is_empty(line) == \A i \in 1..Len(line) : line[i] \in {" ", "\t"}

read_gitignore_without_negations(lines) ==
    LET kept == SelectSeq(lines, LAMBDA line :
                    ~(starts_with(line, <<"#">>) \/ starts_with(line, <<"!">>) \/ trim_is_empty(line)))
    IN  [i \in 1..Len(kept) |-> GitIgnorePattern(kept[i])]

\* read_gitignore: the lines of the file that are neither comments nor blank.
read_gitignore(lines) ==
    LET kept == SelectSeq(lines, LAMBDA line : ~(starts_with(line, <<"#">>) \/ trim_is_empty(line)))
    IN  [i \in 1..Len(kept) |-> GitIgnorePattern(kept[i])]

\* iter.filter_map(|x| f(x).inspect_err(log).ok()).collect(), on the
\* results of f.
filter_map_ok_until_err(results) ==
    LET bad == { i \in 1..Len(results) : results[i].result = "Err" }
        n   == IF bad = {} THEN Len(results)
               ELSE (CHOOSE i \in bad : \A j \in bad : i <= j) - 1
    IN  [i \in 1..n |-> results[i].value]

filter_map_ok(results) ==
    LET kept == SelectSeq(results, LAMBDA r : r.result = "Ok")
    IN  [i \in 1..Len(kept) |-> kept[i].value]

\* extra_exclude_patterns of a GitSaveTask (task.rs, Git branch)
GitExtraExcludePatterns(cli_exclude_patterns) ==
    filter_map_ok([i \in 1..Len(cli_exclude_patterns) |->
                      GitIgnorePattern_try_from_String(cli_exclude_patterns[i])])

\* extra_exclude_patterns of a BorgCreateTask (task.rs, Borg branch): the
\* CLI patterns, the exclude_list of the section, then the .gitignore of the
\* directory when extra_exclude_mode contains git and the file is there.
BorgExtraExcludePatterns(cli_exclude_patterns, exclude_list, extra_exclude_mode, gitignore) ==
    filter_map_ok([i \in 1..Len(cli_exclude_patterns) |->
                      BorgPattern_try_from_String(cli_exclude_patterns[i])])
    \o (IF IsSome(exclude_list)
        THEN filter_map_ok([i \in 1..Len(Unwrap(exclude_list)) |->
                               BorgPattern_try_from_String(Unwrap(exclude_list)[i])])
        ELSE <<>>)
    \o (IF IsSome(extra_exclude_mode) /\ Contains(Unwrap(extra_exclude_mode), "git")
           /\ IsSome(gitignore)
        THEN LET patterns == read_gitignore(Unwrap(gitignore))
             IN  filter_map_ok([i \in 1..Len(patterns) |->
                                   BorgPattern_try_from_GitIgnorePattern(patterns[i])])
        ELSE <<>>)

\* ------------------------------------------------------------------------
\* The exclude patterns of a task that is being created
\* ------------------------------------------------------------------------

\* A pattern list has at most this many entries.
MaxPatterns == 2

\* The sequences of at most MaxPatterns entries of a set.
UpTo(menu) == UNION { [1..n -> menu] : n \in 0..MaxPatterns }

\* The -x patterns of the command line: sh:a, fm:a, a, pp:a
CliPatterns ==
    { <<"s", "h", ":", "a">>, <<"f", "m", ":", "a">>, <<"a">>, <<"p", "p", ":", "a">> }

\* The exclude_list of a [borg.assets] table: absent, [sh:c], [c, pf:x]
ConfigExcludeLists ==
    { None,
      Some(<<<<"s", "h", ":", "c">>>>),
      Some(<< <<"c">>, <<"p", "f", ":", "x">> >>) }

\* The lines of a .gitignore: target/, *.log, !k, a comment, a blank line
GitignoreLines ==
    { <<"t", "a", "r", "g", "e", "t", "/">>,
      <<"*", ".", "l", "o", "g">>,
      <<"!", "k">>,
      <<"#", " ", "c">>,
      <<" ">> }

\* A directory for which collect_tasks has reached "create and append the
\* task": the handler of the section, the -x patterns, and for borg the
\* assets of the section and the .gitignore of the directory (None: no
\* such file).
PatsInit ==
    /\ task_type_id = "git"
    /\ cli_config = [search_hidden |-> FALSE]
    /\ fs = [d \in Dirs |-> [hidden |-> FALSE, is_git_repo |-> FALSE, config |-> None]]
    /\ calls = <<>>
    /\ exclude_lists = <<>>
    /\ task_list = <<>>
    /\ main = MainCollecting
    /\ git = GitIdle
    /\ exec = ExecIdle
    /\ sect = SectIdle
    /\ \/ \E cli \in UpTo(CliPatterns) :
              pats = [ handler |-> "git", cli_exclude_patterns |-> cli,
                       exclude_list |-> None, extra_exclude_mode |-> None,
                       gitignore |-> None, task |-> None ]
       \/ \E cli \in UpTo(CliPatterns), exclude_list \in ConfigExcludeLists,
             extra_exclude_mode \in {None, Some(<<>>), Some(<<"git">>)},
             gitignore \in {None} \cup { Some(lines) : lines \in UpTo(GitignoreLines) } :
              pats = [ handler |-> "borg", cli_exclude_patterns |-> cli,
                       exclude_list |-> exclude_list,
                       extra_exclude_mode |-> extra_exclude_mode,
                       gitignore |-> gitignore, task |-> None ]

\* let task = GitSaveTask { ..., extra_exclude_patterns };
CreateGitSaveTask ==
    /\ pats # PatsIdle
    /\ pats.handler = "git"
    /\ pats.task = None
    /\ pats' = [pats EXCEPT !.task = Some(
           [ kind |-> "GitSaveTask",
             extra_exclude_patterns |-> GitExtraExcludePatterns(pats.cli_exclude_patterns) ])]
    /\ UNCHANGED <<task_type_id, cli_config, fs, calls, exclude_lists, task_list, main, git, exec, sect>>

\* let task = BorgCreateTask { ..., extra_exclude_patterns, ... };
CreateBorgCreateTask ==
    /\ pats # PatsIdle
    /\ pats.handler = "borg"
    /\ pats.task = None
    /\ pats' = [pats EXCEPT !.task = Some(
           [ kind |-> "BorgCreateTask",
             extra_exclude_patterns |->
                 BorgExtraExcludePatterns(pats.cli_exclude_patterns, pats.exclude_list,
                                          pats.extra_exclude_mode, pats.gitignore) ])]
    /\ UNCHANGED <<task_type_id, cli_config, fs, calls, exclude_lists, task_list, main, git, exec, sect>>

PatsNext == CreateGitSaveTask \/ CreateBorgCreateTask

PatsSpec == PatsInit /\ [][PatsNext]_vars

\* The .gitignore of the directory is read for the task.
GitignoreRead ==
    /\ pats.handler = "borg"
    /\ IsSome(pats.extra_exclude_mode)
    /\ Contains(Unwrap(pats.extra_exclude_mode), "git")
    /\ IsSome(pats.gitignore)

\* The patterns given for the task, each with where it comes from, in the
\* order the task takes them: the -x patterns, the exclude_list of the
\* section, the lines of the .gitignore that are neither comment nor blank.
GivenPatterns ==
    [i \in 1..Len(pats.cli_exclude_patterns) |->
        [source |-> "cli", text |-> pats.cli_exclude_patterns[i]]]
    \o (IF IsSome(pats.exclude_list)
        THEN [i \in 1..Len(Unwrap(pats.exclude_list)) |->
                 [source |-> "config", text |-> Unwrap(pats.exclude_list)[i]]]
        ELSE <<>>)
    \o (IF GitignoreRead
        THEN LET lines == SelectSeq(Unwrap(pats.gitignore),
                              LAMBDA l : (\E i \in 1..Len(l) : l[i] \notin {" ", "\t"}) /\ l[1] # "#")
             IN  [i \in 1..Len(lines) |-> [source |-> "gitignore", text |-> lines[i]]]
        ELSE <<>>)

HasBorgPrefix(text) ==
    Len(text) >= 3 /\ text[3] = ":" /\
    <<text[1], text[2]>> \in { <<"f", "m">>, <<"s", "h">>, <<"r", "e">>, <<"p", "p">>, <<"p", "f">> }

\* The pattern cannot be converted to the pattern type of the handler: a
\* negated .gitignore line or a pattern without borg prefix for borg, an
\* fnmatch or regex pattern for git.
Unconvertible(given) ==
    IF pats.handler = "git"
    THEN HasBorgPrefix(given.text) /\ <<given.text[1], given.text[2]>> \in { <<"f", "m">>, <<"r", "e">> }
    ELSE IF given.source = "gitignore"
         THEN given.text[1] = "!"
         ELSE ~HasBorgPrefix(given.text)

\* The pattern of the handler's type a given pattern stands for.
ConversionOf(given) ==
    IF pats.handler = "git"
    THEN GitIgnorePattern_try_from_String(given.text)
    ELSE IF given.source = "gitignore"
         THEN BorgPattern_try_from_GitIgnorePattern(GitIgnorePattern(given.text))
         ELSE BorgPattern_try_from_String(given.text)

\* The given patterns that can be converted, by position.
Kept == { i \in 1..Len(GivenPatterns) : ~Unconvertible(GivenPatterns[i]) }

\* C27: a -x pattern, a config exclude pattern or a .gitignore line that
\* cannot be converted to the pattern type of the handler is dropped alone:
\* the remaining patterns are kept in their original order and the task is
\* still created.
C27_UnconvertiblePatternDroppedAlone ==
    (pats # PatsIdle /\ IsSome(pats.task)) =>
        LET out == Unwrap(pats.task).extra_exclude_patterns IN
        /\ Len(out) = Cardinality(Kept)
        /\ \A i \in Kept :
               out[Cardinality({ j \in Kept : j <= i })] = ConversionOf(GivenPatterns[i]).value

\* A borg task created from -x patterns and .gitignore lines of which one
\* each is dropped and a later one is kept.
C27_Witness ==
    /\ pats # PatsIdle
    /\ IsSome(pats.task)
    /\ pats.handler = "borg"
    /\ GitignoreRead
    /\ \E i, j \in 1..Len(GivenPatterns) :
           /\ i < j
           /\ GivenPatterns[i].source = "cli" /\ GivenPatterns[j].source = "cli"
           /\ Unconvertible(GivenPatterns[i]) /\ ~Unconvertible(GivenPatterns[j])
    /\ \E i, j \in 1..Len(GivenPatterns) :
           /\ i < j
           /\ GivenPatterns[i].source = "gitignore" /\ GivenPatterns[j].source = "gitignore"
           /\ Unconvertible(GivenPatterns[i]) /\ ~Unconvertible(GivenPatterns[j])
    /\ Len(Unwrap(pats.task).extra_exclude_patterns) >= 2

\* The .gitignore with the two lines target/ and *.log
TargetAndLog == << <<"t", "a", "r", "g", "e", "t", "/">>, <<"*", ".", "l", "o", "g">> >>

\* The BorgCreateTask of a directory whose borg section has git in its
\* extra_exclude_mode and whose .gitignore holds target/ and *.log
TargetAndLogTask ==
    /\ pats # PatsIdle
    /\ pats.handler = "borg"
    /\ IsSome(pats.extra_exclude_mode)
    /\ Contains(Unwrap(pats.extra_exclude_mode), "git")
    /\ pats.gitignore = Some(TargetAndLog)
    /\ IsSome(pats.task)

Alphabet == {"/", "\\", "!", "a"}

\* The patterns have at most this many characters.
MaxLen == 4

\* The pattern strings.
Strings == UNION { [1..n -> Alphabet] : n \in 0..MaxLen }

\* A pattern string, taken as a gitignore pattern and as the payload of a
\* borg pattern of some kind, before either conversion.
ConvInit ==
    /\ task_type_id = "git"
    /\ cli_config = [search_hidden |-> FALSE]
    /\ fs = [d \in Dirs |-> [hidden |-> FALSE, is_git_repo |-> FALSE, config |-> None]]
    /\ calls = <<>>
    /\ exclude_lists = <<>>
    /\ task_list = <<>>
    /\ main = MainCollecting
    /\ git = GitIdle
    /\ exec = ExecIdle
    /\ sect = SectIdle
    /\ \E kind \in BorgPatternKinds, pattern \in Strings :
           pats = [ kind |-> kind, pattern |-> pattern,
                    to_borg |-> None, to_gitignore |-> None, back |-> None ]

\* BorgPattern::try_from(GitIgnorePattern { pattern })
GitignoreToBorg ==
    /\ pats.to_borg = None
    /\ pats' = [pats EXCEPT !.to_borg =
           Some(BorgPattern_try_from_GitIgnorePattern(GitIgnorePattern(pats.pattern)))]
    /\ UNCHANGED <<task_type_id, cli_config, fs, calls, exclude_lists, task_list, main, git, exec, sect>>

\* GitIgnorePattern::try_from(BorgPattern::kind(pattern))
BorgToGitignore ==
    /\ pats.to_gitignore = None
    /\ pats' = [pats EXCEPT !.to_gitignore =
           Some(GitIgnorePattern_try_from_BorgPattern(BorgPattern(pats.kind, pats.pattern)))]
    /\ UNCHANGED <<task_type_id, cli_config, fs, calls, exclude_lists, task_list, main, git, exec, sect>>

\* BorgPattern::try_from(git_pattern) of the gitignore pattern the borg
\* pattern was converted to.
BackToBorg ==
    /\ IsSome(pats.to_gitignore)
    /\ Unwrap(pats.to_gitignore).result = "Ok"
    /\ pats.back = None
    /\ pats' = [pats EXCEPT !.back =
           Some(BorgPattern_try_from_GitIgnorePattern(Unwrap(pats.to_gitignore).value))]
    /\ UNCHANGED <<task_type_id, cli_config, fs, calls, exclude_lists, task_list, main, git, exec, sect>>

ConvNext == GitignoreToBorg \/ BorgToGitignore \/ BackToBorg

ConvSpec == ConvInit /\ [][ConvNext]_vars

\* The pattern has a '/' that no backslash stands in front of.
HasUnescapedSlash(pattern) ==
    \E i \in 1..Len(pattern) :
        pattern[i] = "/" /\ (i = 1 \/ pattern[i - 1] # "\\")

\* The pattern with one leading '/' dropped, if it has one.
WithoutLeadingSlash(pattern) ==
    IF Len(pattern) > 0 /\ pattern[1] = "/" THEN Tail(pattern) ELSE pattern

WithLeadingSlash(payload) ==
    IF Len(payload) > 0 /\ payload[1] = "/" THEN payload ELSE <<"/">> \o payload

\* The payload with a trailing '/' put behind unless it has one.
WithTrailingSlash(payload) ==
    IF Len(payload) > 0 /\ payload[Len(payload)] = "/" THEN payload ELSE Append(payload, "/")

\* C30: borg to gitignore, for every BorgPattern: FnMatch and Regex give an
\* error; Shell and PathFullMatch give the payload with a leading '/'
\* ensured; PathPrefix gives the payload with a leading and a trailing '/'
\* ensured; a payload that already has the slash is not changed.
C30_BorgToGitignore ==
    IsSome(pats.to_gitignore) =>
        LET out == Unwrap(pats.to_gitignore)
            p   == pats.pattern
        IN  CASE pats.kind \in {"FnMatch", "Regex"} -> out.result = "Err"
              [] pats.kind \in {"Shell", "PathFullMatch"} ->
                    /\ out.result = "Ok"
                    /\ out.value.pattern = WithLeadingSlash(p)
                    /\ out.value.pattern[1] = "/"
                    /\ (Len(p) > 0 /\ p[1] = "/") => out.value.pattern = p
              [] OTHER ->
                    /\ out.result = "Ok"
                    /\ out.value.pattern = WithTrailingSlash(WithLeadingSlash(p))
                    /\ out.value.pattern[1] = "/"
                    /\ out.value.pattern[Len(out.value.pattern)] = "/"
                    /\ (Len(p) > 1 /\ p[1] = "/" /\ p[Len(p)] = "/") => out.value.pattern = p

\* A PathPrefix payload without slashes got both, and one with both is
\* unchanged.
C30_Witness ==
    /\ IsSome(pats.to_gitignore)
    /\ pats.kind = "PathPrefix"
    /\ Unwrap(pats.to_gitignore).result = "Ok"
    /\ \/ /\ pats.pattern = <<"a", "/", "a">>
          /\ Unwrap(pats.to_gitignore).value.pattern = <<"/", "a", "/", "a", "/">>
       \/ /\ pats.pattern = <<"/", "a", "/">>
          /\ Unwrap(pats.to_gitignore).value.pattern = <<"/", "a", "/">>

\* The two strings are the same up to one leading '/'.
SameUpToLeadingSlash(a, b) == a = b \/ a = <<"/">> \o b \/ b = <<"/">> \o a

\* C31: for every pattern p of kind Shell, PathPrefix or PathFullMatch,
\* borg_to_gitignore(p) succeeds, and gitignore_to_borg of it succeeds and
\* returns a pattern with the payload of p up to a leading '/' (and, for
\* PathPrefix, the ensured trailing '/').
C31_RoundTrip ==
    /\ (IsSome(pats.to_gitignore) /\ pats.kind \in {"Shell", "PathPrefix", "PathFullMatch"}) =>
           Unwrap(pats.to_gitignore).result = "Ok"
    /\ IsSome(pats.back) =>
           /\ Unwrap(pats.back).result = "Ok"
           /\ SameUpToLeadingSlash(
                  Unwrap(pats.back).value.pattern,
                  IF pats.kind = "PathPrefix"
                  THEN WithTrailingSlash(pats.pattern) ELSE pats.pattern)

\* A PathFullMatch payload that begins with '!' and one that begins with
\* '/' have made the round trip.
C31_Witness ==
    /\ IsSome(pats.back)
    /\ Unwrap(pats.back).result = "Ok"
    /\ pats.kind = "PathFullMatch"
    /\ pats.pattern \in { <<"!", "a">>, <<"/", "a">> }
    /\ Unwrap(pats.back).value.pattern \in { <<"!", "a">>, <<"a">> }

\* ---------------------------------------------------------------------
\* replace_possibly_escaped, one iteration of its loop per step.
\* ---------------------------------------------------------------------

MaxStr == 4

\* The String `result` grows without limit when an iteration consumes
\* nothing; the model keeps at most MaxResult characters of it.
MaxResult == 2 * MaxStr

ReplAlphabet == { "\\", "*", "a" }

ReplStrings == UNION { [1..n -> ReplAlphabet] : n \in 0..MaxStr }

ReplaceFroms == { <<>>, <<"*">>, <<"*", "*">>, <<"a", "*">> }

ReplaceTos == { <<>>, <<"?", "?">> }

\* result.push / result.push_str
push_str(result, text) ==
    IF Len(result) + Len(text) > MaxResult THEN result ELSE result \o text

\* str_iter and from_iter are the positions of the next character each
\* iterator yields.
ReplInit ==
    /\ task_type_id = "git"
    /\ cli_config = [exclude_list |-> <<>>]
    /\ fs = [d \in Dirs |-> None]
    /\ calls = <<>>
    /\ exclude_lists = <<>>
    /\ task_list = <<>>
    /\ main = MainCollecting
    /\ git = GitIdle
    /\ exec = ExecIdle
    /\ sect = SectIdle
    /\ \E str \in ReplStrings, replace_from \in ReplaceFroms, replace_to \in ReplaceTos :
           pats = [ str |-> str, replace_from |-> replace_from, replace_to |-> replace_to,
                    str_iter |-> 1, from_iter |-> 1, result |-> <<>>, pc |-> "loop" ]

ReplRunning == pats.pc = "loop" /\ pats.str_iter <= Len(pats.str)

\* `if let Some(from_next) = from_iter.next()` with a character that is
\* not a backslash: a character equal to from_next is consumed and held
\* back, any other one is pushed and the match starts over.
Consume ==
    /\ ReplRunning
    /\ pats.from_iter <= Len(pats.replace_from)
    /\ pats.str[pats.str_iter] # "\\"
    /\ pats' = IF pats.str[pats.str_iter] = pats.replace_from[pats.from_iter]
               THEN [pats EXCEPT !.str_iter = @ + 1, !.from_iter = @ + 1]
               ELSE [pats EXCEPT !.str_iter = @ + 1, !.from_iter = 1,
                                 !.result = push_str(@, <<pats.str[pats.str_iter]>>)]
    /\ UNCHANGED <<task_type_id, cli_config, fs, calls, exclude_lists, task_list, main, git, exec, sect>>

\* `if char == '\\'`: the backslash and the character after it are pushed;
\* `expect("Incomplete escaping.")` panics when there is none.
Escape ==
    /\ ReplRunning
    /\ pats.from_iter <= Len(pats.replace_from)
    /\ pats.str[pats.str_iter] = "\\"
    /\ pats' = IF pats.str_iter + 1 <= Len(pats.str)
               THEN [pats EXCEPT !.str_iter = @ + 2, !.from_iter = 1,
                                 !.result = push_str(@, <<"\\", pats.str[pats.str_iter + 1]>>)]
               ELSE [pats EXCEPT !.str_iter = @ + 1, !.from_iter = @ + 1,
                                 !.result = push_str(@, <<"\\">>), !.pc = "panicked"]
    /\ UNCHANGED <<task_type_id, cli_config, fs, calls, exclude_lists, task_list, main, git, exec, sect>>

\* `else`: from_iter is exhausted; replace_to is pushed and nothing of str
\* is consumed.
MatchFinished ==
    /\ ReplRunning
    /\ pats.from_iter > Len(pats.replace_from)
    /\ pats' = [pats EXCEPT !.from_iter = 1, !.result = push_str(@, pats.replace_to)]
    /\ UNCHANGED <<task_type_id, cli_config, fs, calls, exclude_lists, task_list, main, git, exec, sect>>

\* str_iter.peek() is None: `return result`.
ReplReturn ==
    /\ pats.pc = "loop"
    /\ pats.str_iter > Len(pats.str)
    /\ pats' = [pats EXCEPT !.pc = "returned"]
    /\ UNCHANGED <<task_type_id, cli_config, fs, calls, exclude_lists, task_list, main, git, exec, sect>>

ReplNext == Consume \/ Escape \/ MatchFinished \/ ReplReturn

\* The function is synchronous: an iteration that can run does run.
ReplSpec == ReplInit /\ [][ReplNext]_vars /\ WF_vars(ReplNext)

\* Every backslash of the string is followed by the character it escapes.
RECURSIVE WellEscaped(_)
WellEscaped(str) ==
    IF str = <<>> THEN TRUE
    ELSE IF str[1] = "\\" THEN Len(str) >= 2 /\ WellEscaped(skip(str, 2))
    ELSE WellEscaped(skip(str, 1))

\* The string with every occurrence of replace_from outside an escape
\* replaced by replace_to, escapes kept as they are.
RECURSIVE Replaced(_, _, _)
Replaced(str, replace_from, replace_to) ==
    IF str = <<>> THEN <<>>
    ELSE IF str[1] = "\\"
         THEN SubSeq(str, 1, 2) \o Replaced(skip(str, 2), replace_from, replace_to)
    ELSE IF starts_with(str, replace_from)
         THEN replace_to \o Replaced(skip(str, Len(replace_from)), replace_from, replace_to)
    ELSE <<str[1]>> \o Replaced(skip(str, 1), replace_from, replace_to)

\* C32: for every string s, every non-empty from without a backslash and
\* every to, replace_possibly_escaped(s, from, to) returns s with every
\* occurrence of from outside an escape replaced by to, every escape and
\* every other character kept.
C32_ReplacesEveryOccurrence ==
    ( /\ pats.pc = "returned"
      /\ pats.replace_from # <<>>
      /\ ~ str_contains(pats.replace_from, <<"\\">>)
      /\ WellEscaped(pats.str) ) =>
        pats.result = Replaced(pats.str, pats.replace_from, pats.replace_to)

\* C38: replace_possibly_escaped terminates and returns a string for every
\* str, every replace_from and every replace_to.
C38_Returns == <>(pats.pc = "returned")

\* ---------------------------------------------------------------------
\* read_gitignore on the content of a file.
\* ---------------------------------------------------------------------

MaxContent == 5

ContentAlphabet == { "#", "!", " ", "a", "\n" }

Contents == UNION { [1..n -> ContentAlphabet] : n \in 0..MaxContent }

\* str::lines: the pieces that end with a line feed, and the piece after
\* the last line feed when it is not empty.
RECURSIVE str_lines(_, _)
str_lines(content, line) ==
    IF content = <<>> THEN (IF line = <<>> THEN <<>> ELSE <<line>>)
    ELSE IF Head(content) = "\n"
         THEN <<line>> \o str_lines(Tail(content), <<>>)
         ELSE str_lines(Tail(content), Append(line, Head(content)))

ReadInit ==
    /\ task_type_id = "borg"
    /\ cli_config = [exclude_list |-> <<>>]
    /\ fs = [d \in Dirs |-> None]
    /\ calls = <<>>
    /\ exclude_lists = <<>>
    /\ task_list = <<>>
    /\ main = MainCollecting
    /\ git = GitIdle
    /\ exec = ExecIdle
    /\ sect = SectIdle
    /\ \E content \in Contents : pats = [ content |-> content, patterns |-> None ]

\* read_gitignore(file) for a file that read_to_string returns as content.
ReadGitignore ==
    /\ pats.patterns = None
    /\ pats' = [pats EXCEPT !.patterns = Some(read_gitignore(str_lines(pats.content, <<>>)))]
    /\ UNCHANGED <<task_type_id, cli_config, fs, calls, exclude_lists, task_list, main, git, exec, sect>>

ReadNext == ReadGitignore

ReadSpec == ReadInit /\ [][ReadNext]_vars

\* The positions of the file at which a line starts, the position after
\* the last character of that line, and its text.
LineStarts(content) ==
    { a \in 1..Len(content) : a = 1 \/ content[a - 1] = "\n" }

LineEnd(content, a) ==
    CHOOSE b \in a..(Len(content) + 1) :
        /\ b = Len(content) + 1 \/ content[b] = "\n"
        /\ \A c \in a..(b - 1) : content[c] # "\n"

LineText(content, a) == SubSeq(content, a, LineEnd(content, a) - 1)

\* The line is neither blank nor a comment.
IsPatternLine(text) ==
    /\ \E i \in 1..Len(text) : text[i] # " "
    /\ text[1] # "#"

\* C33: read_gitignore returns, in file order and unchanged, exactly the
\* lines of the file that are neither blank nor start with '#'; lines that
\* start with '!' are returned like any other line.
C33_ReadGitignore ==
    IsSome(pats.patterns) =>
        LET content  == pats.content
            patterns == Unwrap(pats.patterns)
            kept     == { a \in LineStarts(content) : IsPatternLine(LineText(content, a)) }
        IN  /\ Len(patterns) = Cardinality(kept)
            /\ \A a \in kept :
                   patterns[Cardinality({ x \in kept : x <= a })] =
                       GitIgnorePattern(LineText(content, a))

\* A file with a comment, an empty line, a negation and a pattern that has
\* a '#' inside has been read.
C33_Witness ==
    /\ pats.content \in { <<"#", "\n", "\n", "!", "a">>, <<" ", "\n", "a", "#", "\n">> }
    /\ IsSome(pats.patterns)
    /\ Unwrap(pats.patterns) \in { << GitIgnorePattern(<<"!", "a">>) >>,
                                   << GitIgnorePattern(<<"a", "#">>) >> }

\* The sections of the effective config of invocation c that the run
\* accepts and that resolve to the given strategies.
SectionResolves(c, variant, strategies) ==
    /\ IsSome(calls[c].config)
    /\ \E i \in 1..Len(push_task_configs(Unwrap(calls[c].config))) :
           LET push_config == push_task_configs(Unwrap(calls[c].config))[i].push_config
           IN  /\ push_config.variant = variant
               /\ Accepted(push_config)
               /\ SectionOnRecursion(push_config) \in strategies

\* C34: the handler sections of a directory are dispatched independently:
\* a directory whose git section resolves to skip or include and whose borg
\* section is standalone still yields its BorgCreateTask in a borg run.
C34_LaterSectionsStillDispatched ==
    \A c \in CallIds :
        ( /\ task_type_id = "borg"
          /\ calls[c].pc = "ok"
          /\ SectionResolves(c, "Git", {"skip", "include"})
          /\ SectionResolves(c, "Borg", {"standalone"}) ) =>
            \E t \in TaskIds :
                /\ task_list[t].kind = "BorgCreateTask"
                /\ task_list[t].dir = calls[c].dir

\* The repository as the task finds it: the capturing run leaves it as it
\* is.
FoundDirty ==
    ~git.runs["shell"].repo.tree_clean \/ ~git.runs["shell"].repo.index_clean

IgnoredAndPushed ==
    /\ git.unsaved_behavior = "ignore"
    /\ ~git.runs["shell"].repo.tree_clean
    /\ git.runs["execute"].pc = "done"
    /\ git.runs["execute"].log = <<"fetch", "push">>

\* No path occurs twice in the list.
NoDuplicates(list) ==
    \A i, j \in 1..Len(list) : list[i] = list[j] => i = j

\* C36: an exclude list is a set: no exclude list and no exclude_list of a
\* task holds the same path more than once, also when several handler
\* sections of a nested directory register it.
C36_ExcludeListIsASet ==
    /\ \A l \in 1..Len(exclude_lists) : NoDuplicates(exclude_lists[l])
    /\ \A t \in TaskIds : NoDuplicates(task_list[t].exclude_list)

\* ---------------------------------------------------------------------
\* collect_tasks with the acquisition and the release of every Mutex as
\* steps of their own.
\* ---------------------------------------------------------------------

\* The Mutex of the task list, and the Mutex of the exclude list with the
\* given number.
TaskListLock == <<"task_list", 0>>

ListLock(list) == <<"exclude_list", list>>

\* What a directory of the tree may be here: without .git and
\* dionysius.toml, a git repository without dionysius.toml, or a repository
\* whose dionysius.toml has a [git] and a [borg] section, or a [git]
\* section that resolves to skip.
LockDirEntries ==
    { [hidden |-> FALSE, is_git_repo |-> g, config |-> None] : g \in BOOLEAN }
    \cup { [hidden |-> FALSE, is_git_repo |-> TRUE,
            config |-> Some([trigger |-> None, git |-> Some(g), borg |-> b])] :
             g \in { GitSection(a, "standalone", <<"git", "borg">>, "save") : a \in {"skip", "standalone"} },
             b \in { None, Some(BorgSection("standalone", "standalone", <<"borg">>)) } }

\* An invocation of collect_tasks and the MutexGuards it holds.
NewTraversal(dir, super_config, super_exclude_list, parent) ==
    [ dir                |-> dir,
      super_config       |-> super_config,
      super_exclude_list |-> super_exclude_list,
      parent             |-> parent,
      pc                 |-> "start",
      config             |-> None,
      idx                |-> 0,
      children           |-> {},
      exclude_list       |-> <<>>,
      holds              |-> {} ]

\* tokio::spawn(collect_tasks(...)) for every immediate subdirectory.
SpawnTraversals(cs, dir, super_config, super_exclude_list, parent) ==
    cs \o [i \in 1..Len(Subdirs(dir)) |->
              NewTraversal(Subdirs(dir)[i], super_config, super_exclude_list, parent)]

LockInit ==
    /\ main = MainCollecting
    /\ git = GitIdle
    /\ exec = ExecIdle
    /\ sect = SectIdle
    /\ pats = PatsIdle
    /\ task_type_id = "borg"
    /\ cli_config = [search_hidden |-> FALSE]
    /\ fs \in [Dirs -> LockDirEntries]
    /\ calls = <<NewTraversal(Root, None, NoList, 0)>>
    /\ exclude_lists = <<>>
    /\ task_list = <<>>

\* Mutex::lock returns: no traversal holds a guard of the Mutex.
Free(lock) == \A k \in 1..Len(calls) : lock \notin calls[k].holds

\* The guards left when the function returns or unwinds.
Dropped == {}

\* The guard of the entry check kept until the function returns.
HeldAfterCheck_kept(holds, lock) == holds

\* The guards held after the block of the entry check: `exclude_list` is a
\* local of the block and is dropped at its end.
HeldAfterCheck(holds, lock) == holds \ {lock}

\* `exclude_list.lock().unwrap()` at the entry of collect_tasks; without a
\* handed list there is nothing to lock.
AcquireSuperList(c) ==
    LET call == calls[c] IN
    /\ call.pc = "start"
    /\ IF call.super_exclude_list = NoList
       THEN calls' = [calls EXCEPT ![c].pc = "entered"]
       ELSE /\ Free(ListLock(call.super_exclude_list))
            /\ calls' = [calls EXCEPT ![c].pc = "check",
                                      ![c].holds = @ \cup {ListLock(call.super_exclude_list)}]
    /\ UNCHANGED <<task_type_id, cli_config, fs, exec, sect, pats, main, git, exclude_lists, task_list>>

\* `exclude_list.contains(current_dir)` under the guard, and the end of the
\* block or the return.
ExcludedCheck(c) ==
    LET call == calls[c] IN
    /\ call.pc = "check"
    /\ calls' = IF Excluded(c)
                THEN [calls EXCEPT ![c].pc = "ok", ![c].holds = Dropped]
                ELSE [calls EXCEPT ![c].pc = "entered",
                                   ![c].holds = HeldAfterCheck(@, ListLock(call.super_exclude_list))]
    /\ UNCHANGED <<task_type_id, cli_config, fs, exec, sect, pats, main, git, exclude_lists, task_list>>

\* From the hidden check to the first await or to the loop over the
\* handler sections.
EnterDirectory(c) ==
    LET call == calls[c]
        dir == call.dir
        trivial == ~IsSome(fs[dir].config) /\ ~fs[dir].is_git_repo
    IN
    /\ call.pc = "entered"
    /\ UNCHANGED <<task_type_id, cli_config, fs, exec, sect, pats, main, git, task_list>>
    /\ IF Hidden(c)
       THEN /\ calls' = [calls EXCEPT ![c].pc = "ok", ![c].holds = Dropped]
            /\ UNCHANGED exclude_lists
       ELSE IF trivial
       THEN /\ calls' = SpawnTraversals(
                            [calls EXCEPT ![c].pc = "join_trivial",
                                          ![c].children = SpawnedIds(calls, dir)],
                            dir, call.super_config, TrivialExcludeList(c), c)
            /\ UNCHANGED exclude_lists
       ELSE IF load_config_fails(dir) \/ inherit_config_panics(LocalConfig(dir), call.super_config)
       THEN /\ calls' = [calls EXCEPT ![c].pc = "panic", ![c].holds = Dropped]
            /\ UNCHANGED exclude_lists
       ELSE /\ calls' = [calls EXCEPT
                            ![c].pc = "loop",
                            ![c].idx = 1,
                            ![c].config = Some(inherit_config(LocalConfig(dir), call.super_config))]
            /\ exclude_lists' = WithNewList(exclude_lists, c)

\* join_all of a directory without config and without .git, and the return.
AwaitTrivial(c) ==
    LET call == calls[c] IN
    /\ call.pc = "join_trivial"
    /\ Joined(c)
    /\ calls' = [calls EXCEPT ![c].pc = IF SubdirsOk(c) THEN "ok" ELSE "err",
                              ![c].holds = Dropped]
    /\ UNCHANGED <<task_type_id, cli_config, fs, exec, sect, pats, main, git, exclude_lists, task_list>>

\* After apply_recursion_strategy: the return for skip and include, else
\* process_subdirs up to its await.
AfterStrategy(cs, c) ==
    LET call == cs[c]
        push_config == CurrentSection(call)
    IN  IF ~ShouldCreateTask(SectionOnRecursion(push_config))
        THEN [cs EXCEPT ![c].pc = "ok", ![c].holds = Dropped]
        ELSE IF push_config.variant = "Trigger" /\ call.super_exclude_list = NoList
        THEN [cs EXCEPT ![c].pc = "panic", ![c].holds = Dropped]
        ELSE SpawnTraversals(
                 [cs EXCEPT ![c].pc = "join", ![c].children = SpawnedIds(cs, call.dir)],
                 call.dir, call.config, ChildExcludeList(c, push_config), c)

\* The head of the loop body and apply_recursion_strategy up to
\* `list_ref.lock().unwrap()`.
NextSection(c) ==
    LET call == calls[c] IN
    /\ call.pc = "loop"
    /\ UNCHANGED <<task_type_id, cli_config, fs, exec, sect, pats, main, git, exclude_lists, task_list>>
    /\ IF call.idx > Len(push_task_configs(Unwrap(call.config)))
       THEN calls' = [calls EXCEPT ![c].pc = "ok", ![c].holds = Dropped]
       ELSE LET push_config == CurrentSection(call)
                on_recursion == SectionOnRecursion(push_config)
            IN
            IF ~Accepted(push_config)
            THEN calls' = [calls EXCEPT ![c].pc = "ok", ![c].holds = Dropped]
            ELSE IF StrategyPanics(on_recursion)
            THEN calls' = [calls EXCEPT ![c].pc = "panic", ![c].holds = Dropped]
            ELSE IF RegistersInSuper(on_recursion) /\ StrategyList(c) # NoList
            THEN /\ Free(ListLock(StrategyList(c)))
                 /\ calls' = [calls EXCEPT ![c].pc = "register",
                                           ![c].holds = @ \cup {ListLock(StrategyList(c))}]
            ELSE calls' = AfterStrategy(calls, c)

\* `.push(current_dir.clone())` under the guard, the drop of the guard at
\* the end of the statement, and what follows up to the next await.
Register(c) ==
    LET call == calls[c] IN
    /\ call.pc = "register"
    /\ exclude_lists' = [exclude_lists EXCEPT ![StrategyList(c)] = Append(@, call.dir)]
    /\ calls' = AfterStrategy([calls EXCEPT ![c].holds = @ \ {ListLock(StrategyList(c))}], c)
    /\ UNCHANGED <<task_type_id, cli_config, fs, exec, sect, pats, main, git, task_list>>

\* process_subdirs returns.
AwaitSubdirs(c) ==
    LET call == calls[c] IN
    /\ call.pc = "join"
    /\ Joined(c)
    /\ calls' = IF ~SubdirsOk(c)
                THEN [calls EXCEPT ![c].pc = "err", ![c].holds = Dropped]
                ELSE IF CurrentSection(call).variant = "Trigger"
                THEN [calls EXCEPT ![c].pc = "built"]
                ELSE [calls EXCEPT ![c].pc = "reap"]
    /\ UNCHANGED <<task_type_id, cli_config, fs, exec, sect, pats, main, git, exclude_lists, task_list>>

\* `current_exclude_list_ref.lock().unwrap()`
AcquireOwnList(c) ==
    /\ calls[c].pc = "reap"
    /\ Free(ListLock(c))
    /\ calls' = [calls EXCEPT ![c].pc = "reaping", ![c].holds = @ \cup {ListLock(c)}]
    /\ UNCHANGED <<task_type_id, cli_config, fs, exec, sect, pats, main, git, exclude_lists, task_list>>

\* `.clone()` under the guard and the drop of the guard.
ReapList(c) ==
    /\ calls[c].pc = "reaping"
    /\ calls' = [calls EXCEPT ![c].pc = "built",
                              ![c].exclude_list = Reap(c),
                              ![c].holds = @ \ {ListLock(c)}]
    /\ UNCHANGED <<task_type_id, cli_config, fs, exec, sect, pats, main, git, exclude_lists, task_list>>

\* The task is built, then `task_list.lock().unwrap()`.
AcquireTaskList(c) ==
    LET call == calls[c] IN
    /\ call.pc = "built"
    /\ IF TargetMissing(CurrentSection(call))
       THEN calls' = [calls EXCEPT ![c].pc = "panic", ![c].holds = Dropped]
       ELSE /\ Free(TaskListLock)
            /\ calls' = [calls EXCEPT ![c].pc = "pushing", ![c].holds = @ \cup {TaskListLock}]
    /\ UNCHANGED <<task_type_id, cli_config, fs, exec, sect, pats, main, git, exclude_lists, task_list>>

\* `.push(Box::new(task))` under the guard and the drop of the guard; the
\* loop goes on with the next section.
AppendTask(c) ==
    LET call == calls[c] IN
    /\ call.pc = "pushing"
    /\ task_list' = Append(task_list, NewTask(call, CurrentSection(call)))
    /\ calls' = [calls EXCEPT ![c].pc = "loop", ![c].idx = @ + 1,
                              ![c].holds = @ \ {TaskListLock}]
    /\ UNCHANGED <<task_type_id, cli_config, fs, exec, sect, pats, main, git, exclude_lists>>

LockNext ==
    \/ \E c \in 1..Len(calls) : AcquireSuperList(c)
    \/ \E c \in 1..Len(calls) : ExcludedCheck(c)
    \/ \E c \in 1..Len(calls) : EnterDirectory(c)
    \/ \E c \in 1..Len(calls) : AwaitTrivial(c)
    \/ \E c \in 1..Len(calls) : NextSection(c)
    \/ \E c \in 1..Len(calls) : Register(c)
    \/ \E c \in 1..Len(calls) : AwaitSubdirs(c)
    \/ \E c \in 1..Len(calls) : AcquireOwnList(c)
    \/ \E c \in 1..Len(calls) : ReapList(c)
    \/ \E c \in 1..Len(calls) : AcquireTaskList(c)
    \/ \E c \in 1..Len(calls) : AppendTask(c)

\* The runtime runs every spawned traversal that can take a step, and a
\* released Mutex is handed to a traversal that waits for it.
LockSpec == LockInit /\ [][LockNext]_vars /\ WF_vars(LockNext)

\* No traversal holds two guards, none holds a guard while it awaits
\* join_all, every Mutex has at most one holder, a traversal that has
\* returned holds nothing and every traversal it spawned has finished, and
\* as long as the root traversal has not returned some traversal can take a
\* step.
LockDiscipline ==
    /\ \A c \in CallIds :
           /\ Cardinality(calls[c].holds) <= 1
           /\ calls[c].pc \in {"join", "join_trivial"} => calls[c].holds = {}
           /\ calls[c].pc \in Finished =>
                  /\ calls[c].holds = {}
                  /\ \A k \in CallIds : calls[k].parent = c => calls[k].pc \in Finished
           /\ \A k \in CallIds : (calls[c].holds \cap calls[k].holds # {}) => c = k
    /\ calls[1].pc \notin Finished => ENABLED LockNext

\* C37: collection is deadlock-free and terminates on every finite tree
\* under every interleaving: no traversal acquires a lock while holding
\* another, no lock is held across the join of the subdirectory
\* traversals, and a directory returns only after every traversal it
\* spawned has finished.
C37_DeadlockFreeAndTerminates ==
    /\ []LockDiscipline
    /\ <>(calls[1].pc \in Finished)

\* Two traversals are at the same Mutex: one holds the exclude list of
\* their parent while the other waits for it.
C37_Witness ==
    \E c, k \in CallIds :
        /\ c # k
        /\ calls[c].pc = "register"
        /\ calls[k].pc = "start"
        /\ ListLock(calls[k].super_exclude_list) \in calls[c].holds

====
